---- MODULE Spec2Model ----
(***************************************************************************)
(* Model of the wiki scraper of bg3-assistant (src/services/bg3WikiApi.ts):*)
(* the field extractor, the text normalizer, the item classifier and the   *)
(* act classifier.  JavaScript strings are TLA+ strings; positions are     *)
(* 1-based, so JS index i is position i + 1 here.  A value that may be     *)
(* null / undefined is a sequence of length 0 (absent) or 1 (present).     *)
(* The variable storage is the browser's cookie jar and localStorage, as   *)
(* the persistence functions (utils/storage.ts) see them; the variable     *)
(* frame holds the locals of a running searchItems or getItemByName.       *)
(* Spec runs one call of these functions.  AppSpec runs the application    *)
(* component (App.tsx) with its builds, its active build and its undo      *)
(* history, and FormSpec the add-item form (components/AddItemForm.tsx)    *)
(* with its debounced search; their variables are described where their    *)
(* handlers are defined, and stay as constructed in the other              *)
(* specifications.                                                         *)
(***************************************************************************)
EXTENDS Integers, Sequences, FiniteSets, TLC

VARIABLES call, pc, ret, storage, frame,
          builds, activeBuildId, historyRef, hasProcessedActs, submitting, saved, session, trace,
          searchQuery, searchResults, selectedItem, isSearching, showDropdown, manualMode,
          highlightedIndex, searchTimeoutRef, requests, lookups, typed, applied

serviceVars == <<call, ret, storage, frame>>
appVars == <<builds, activeBuildId, historyRef, hasProcessedActs, submitting, saved, session, trace>>
formVars == <<searchQuery, searchResults, selectedItem, isSearching, showDropdown, manualMode,
              highlightedIndex, searchTimeoutRef, requests, lookups, typed, applied>>
vars == <<pc, serviceVars, appVars, formVars>>

(***************************************************************************)
(* String primitives of the JavaScript runtime.                            *)
(***************************************************************************)
Min(S) == CHOOSE x \in S : \A y \in S : x <= y
Max(S) == CHOOSE x \in S : \A y \in S : x >= y

\* the least position of a set of positions, 0 when there is none
minOrZero(S) == IF S = {} THEN 0 ELSE Min(S)

\* s[i - 1] of JavaScript, "" when out of range
charAt(s, i) == IF i >= 1 /\ i <= Len(s) THEN SubSeq(s, i, i) ELSE ""

\* s.substring(i - 1): the rest of s from position i
substringFrom(s, i) == IF i > Len(s) THEN "" ELSE SubSeq(s, i, Len(s))

UpperAlpha == "ABCDEFGHIJKLMNOPQRSTUVWXYZ"
LowerAlpha == "abcdefghijklmnopqrstuvwxyz"
Digits == "0123456789"
UpperSet == {SubSeq(UpperAlpha, i, i) : i \in 1..26}
LowerSet == {SubSeq(LowerAlpha, i, i) : i \in 1..26}
DigitSet == {SubSeq(Digits, i, i) : i \in 1..10}
LetterSet == UpperSet \cup LowerSet

\* the regex classes \s and \w
isSpace(c) == c \in {" ", "\n", "\t", "\r"}
isWordChar(c) == c \in LetterSet \cup DigitSet \cup {"_"}

lowerOf ==
  [c \in UpperSet |->
     LET i == CHOOSE j \in 1..26 : SubSeq(UpperAlpha, j, j) = c
     IN SubSeq(LowerAlpha, i, i)]

lowerChar(c) == IF c \in UpperSet THEN lowerOf[c] ELSE c

\* s.toLowerCase(), computed by halves
RECURSIVE toLowerCase(_)
toLowerCase(s) ==
  IF Len(s) = 0 THEN ""
  ELSE IF Len(s) = 1 THEN lowerChar(s)
  ELSE toLowerCase(SubSeq(s, 1, Len(s) \div 2))
       \o toLowerCase(SubSeq(s, (Len(s) \div 2) + 1, Len(s)))

startsWithAt(s, t, i) ==
  /\ i >= 1
  /\ i + Len(t) - 1 <= Len(s)
  /\ (t = "" \/ SubSeq(s, i, i + Len(t) - 1) = t)

startsWith(s, t) == startsWithAt(s, t, 1)

\* s.includes(t)
includes(s, t) == \E i \in 1..(Len(s) + 1) : startsWithAt(s, t, i)

\* case-insensitive literal match of t at position i (regex flag i)
matchesAtCI(s, t, i) ==
  /\ i >= 1
  /\ i + Len(t) - 1 <= Len(s)
  /\ \A k \in 1..Len(t) : lowerChar(charAt(s, i + k - 1)) = lowerChar(charAt(t, k))

\* s.trim()
trim(s) ==
  LET keep == {i \in 1..Len(s) : ~isSpace(charAt(s, i))}
  IN IF keep = {} THEN "" ELSE SubSeq(s, Min(keep), Max(keep))

\* length of the maximal run of characters satisfying the class at position i
RECURSIVE spaceRun(_, _)
spaceRun(s, i) == IF isSpace(charAt(s, i)) THEN 1 + spaceRun(s, i + 1) ELSE 0

RECURSIVE spaceOrUnderscoreRun(_, _)
spaceOrUnderscoreRun(s, i) ==
  IF isSpace(charAt(s, i)) \/ charAt(s, i) = "_"
  THEN 1 + spaceOrUnderscoreRun(s, i + 1)
  ELSE 0

\* \b at position i: exactly one of the characters before and at i is a word character
wordBoundary(s, i) == isWordChar(charAt(s, i - 1)) # isWordChar(charAt(s, i))

\* s.replace(/\s+/g, r): from one whitespace run to the next
RECURSIVE replaceSpaceRuns(_, _)
replaceSpaceRuns(s, r) ==
  LET at == {i \in 1..Len(s) : isSpace(charAt(s, i))}
  IN IF at = {} THEN s
     ELSE SubSeq(s, 1, Min(at) - 1) \o r
          \o replaceSpaceRuns(substringFrom(s, Min(at) + spaceRun(s, Min(at))), r)

\* s.split(sep characters): the pieces between separator characters
RECURSIVE splitOn(_, _)
splitOn(s, seps) ==
  LET at == {i \in 1..Len(s) : charAt(s, i) \in seps}
  IN IF at = {} THEN <<s>>
     ELSE <<SubSeq(s, 1, Min(at) - 1)>> \o splitOn(substringFrom(s, Min(at) + 1), seps)

(***************************************************************************)
(* Field Extractor: extractFieldValue (bg3WikiApi.ts 593-671).             *)
(***************************************************************************)

\* The regex built at lines 595-609, new RegExp(`\\|\\s*${fieldPattern}\\s*=`, 'i'),
\* matched from position i of the content against the field name from its
\* k-th character on: the position after the '=' of the match the
\* backtracking engine prefers (greedy quantifiers), 0 when there is none.
\* A whitespace run of the field name is [\s_]+, any other character a
\* case-insensitive literal (line 595 escapes the regex specials).
\* The literals between two whitespace runs are matched as one word.
wordEnd(fieldName, k) ==
  Min({j \in k..(Len(fieldName) + 1) : j > Len(fieldName) \/ isSpace(charAt(fieldName, j))})

RECURSIVE fieldNameMatchEnd(_, _, _, _)
fieldNameMatchEnd(content, i, fieldName, k) ==
  IF k > Len(fieldName)
  THEN \* \s*=
       LET j == i + spaceRun(content, i)
       IN IF charAt(content, j) = "=" THEN j + 1 ELSE 0
  ELSE IF isSpace(charAt(fieldName, k))
  THEN LET k2 == k + spaceRun(fieldName, k)
           run == spaceOrUnderscoreRun(content, i)
           good == {m \in 1..run : fieldNameMatchEnd(content, i + m, fieldName, k2) # 0}
       IN IF good = {} THEN 0
          ELSE fieldNameMatchEnd(content, i + Max(good), fieldName, k2)
  ELSE LET k2 == wordEnd(fieldName, k)
       IN IF matchesAtCI(content, SubSeq(fieldName, k, k2 - 1), i)
          THEN fieldNameMatchEnd(content, i + k2 - k, fieldName, k2)
          ELSE 0

\* the pattern anchored at a '|' at position p: \| \s* name \s* =
\* the greedy \s* after the '|' takes the longest run that lets the rest match
nameEndAfter(content, p, fieldName, good) ==
  IF good = {} THEN 0 ELSE fieldNameMatchEnd(content, p + 1 + Max(good), fieldName, 1)

fieldPatternEndAt(content, p, fieldName) ==
  IF charAt(content, p) # "|" THEN 0
  ELSE nameEndAfter(content, p, fieldName,
         {m \in 0..spaceRun(content, p + 1) :
            fieldNameMatchEnd(content, p + 1 + m, fieldName, 1) # 0})

fieldPatternEndAtOrZero(content, p, fieldName) ==
  IF p = 0 THEN 0 ELSE fieldPatternEndAt(content, p, fieldName)

\* content.match(pattern): the position after the first match, 0 when no match
fieldStartMatch(content, fieldName) ==
  fieldPatternEndAtOrZero(content,
    minOrZero({p \in 1..Len(content) : fieldPatternEndAt(content, p, fieldName) # 0}),
    fieldName)

\* line 659: lookAhead.match(/^\|\s+[a-zA-Z_][a-zA-Z0-9_\s]*\s*=/) at position i
\* [a-zA-Z0-9_\s]*\s*= from position i: only such characters before an '='
fieldNameTail(s, i) ==
  \E j \in i..Len(s) :
    /\ charAt(s, j) = "="
    /\ \A x \in i..(j - 1) : isWordChar(charAt(s, x)) \/ isSpace(charAt(s, x))

nextFieldAt(s, i) ==
  LET run == spaceRun(s, i + 1)
      j == i + 1 + run
  IN /\ charAt(s, i) = "|"
     /\ run >= 1
     /\ charAt(s, j) \in LetterSet \cup {"_"}
     /\ fieldNameTail(s, j + 1)

\* line 632: a '{{' counts as an opening only at the start of the value or
\* after a newline, a space or a '|'
opensTemplate(rem, i) ==
  /\ startsWithAt(rem, "{{", i)
  /\ (i = 1 \/ charAt(rem, i - 1) \in {"\n", " ", "|"})

\* the scan loop of lines 627-668: the position endPos + 1 where the value
\* stops.  The loop steps over every character at which none of its three
\* tests fires, so the scan goes from one such position to the next.
scanStopsAt(rem, j, braceDepth) ==
  \/ opensTemplate(rem, j)
  \/ startsWithAt(rem, "}}", j)
  \/ charAt(rem, j) = "|" /\ braceDepth = 0 /\ nextFieldAt(rem, j)

RECURSIVE scanValueEnd(_, _, _)
scanValueEnd(rem, i, braceDepth) ==
  LET stops == {j \in i..Len(rem) : scanStopsAt(rem, j, braceDepth)}
      j == Min(stops)
  IN IF stops = {} THEN Len(rem) + 1
     ELSE IF opensTemplate(rem, j) THEN scanValueEnd(rem, j + 2, braceDepth + 1)
     ELSE IF startsWithAt(rem, "}}", j)
     THEN IF braceDepth > 0 THEN scanValueEnd(rem, j + 2, braceDepth - 1) ELSE j
     ELSE j

\* lines 608-670: the value that ends where the scan of the remaining content stops
valueOfRemaining(remainingContent) ==
  <<trim(SubSeq(remainingContent, 1, scanValueEnd(remainingContent, 1, 0) - 1))>>

\* lines 603-607: no match, no value
valueFrom(content, startPos) ==
  IF startPos = 0 THEN <<>> ELSE valueOfRemaining(substringFrom(content, startPos))

extractFieldValue(content, fieldName) ==
  valueFrom(content, fieldStartMatch(content, fieldName))

\* a || b on string | null values: null and "" are falsy
orElse(a, b) == IF a # <<>> /\ a # <<"">> THEN a ELSE b

\* r || null, line 714: a falsy "" becomes null
orNull(r) == IF r = <<"">> THEN <<>> ELSE r

extractWithVariations(content, fieldName) ==
  orNull(orElse(extractFieldValue(content, fieldName),
           orElse(extractFieldValue(content, replaceSpaceRuns(fieldName, "_")),
                  extractFieldValue(content, trim(fieldName)))))

(***************************************************************************)
(* Act Classifier (bg3WikiApi.ts 199-514).                                 *)
(***************************************************************************)

\* Object.entries(LOCATION_TO_ACT), in insertion order (lines 203-272).  The
\* strings here are ASCII: the non-ASCII letter of line 227 is written '~',
\* which like it is no [a-zA-Z], no \w and no whitespace character.
LOCATION_TO_ACT ==
  << <<"Emerald Grove", 1>>, <<"Druid Grove", 1>>, <<"Grove", 1>>,
     <<"The Hollow", 1>>, <<"Hollow", 1>>, <<"Shattered Sanctum", 1>>,
     <<"Goblin Camp", 1>>, <<"Blighted Village", 1>>, <<"Waukeen's Rest", 1>>,
     <<"Risen Road", 1>>, <<"Mountain Pass", 1>>, <<"Underdark", 1>>,
     <<"The Underdark", 1>>, <<"Grymforge", 1>>, <<"Creche Y'llek", 1>>,
     <<"Rosymorn Monastery", 1>>, <<"Rosymorn Monastery Trail", 1>>,
     <<"Arcane Tower", 1>>, <<"Myconid Colony", 1>>, <<"Ebonlake Grotto", 1>>,
     <<"Adamantine Forge", 1>>, <<"Sussur Tree", 1>>, <<"Sel~nite Outpost", 1>>,
     <<"Decrepit Village", 1>>, <<"Festering Cove", 1>>, <<"Beach", 1>>,
     <<"Nautiloid", 1>>, <<"Ravaged Beach", 1>>, <<"Overgrown Ruins", 1>>,
     <<"Roadside Cliffs", 1>>, <<"Dank Crypt", 1>>, <<"Defiled Temple", 1>>,
     <<"Shadow-Cursed Lands", 2>>, <<"Last Light Inn", 2>>,
     <<"Moonrise Towers", 2>>, <<"Reithwin Town", 2>>, <<"House of Healing", 2>>,
     <<"Gauntlet of Shar", 2>>, <<"Thorm Mausoleum", 2>>, <<"Temple of Shar", 2>>,
     <<"Grand Mausoleum", 2>>, <<"Ketheric Thorm", 2>>, <<"Shadowfell", 2>>,
     <<"Ruined Battlefield", 2>>,
     <<"Baldur's Gate", 3>>, <<"Rivington", 3>>, <<"Wyrm's Crossing", 3>>,
     <<"Lower City", 3>>, <<"Upper City", 3>>, <<"Crimson Palace", 3>>,
     <<"House of Hope", 3>>, <<"Cazador's Palace", 3>>,
     <<"Sorcerous Sundries", 3>>, <<"Temple of Bhaal", 3>>, <<"High Hall", 3>>,
     <<"Cloister of Somber Embrace", 3>>, <<"Cloister", 3>>,
     <<"Somber Embrace", 3>>, <<"Szarr Palace", 3>>, <<"Murder Tribunal", 3>>,
     <<"Forge of the Nine", 3>>, <<"Wyrm's Rock Fortress", 3>>,
     <<"Highberry's Home", 3>> >>

\* the members every object literal inherits from Object.prototype: the
\* lookup LOCATION_TO_ACT[name] of line 393 finds them too
ObjectPrototypeKeys ==
  {"constructor", "toString", "toLocaleString", "valueOf", "hasOwnProperty",
   "isPrototypeOf", "propertyIsEnumerable", "__proto__", "__defineGetter__",
   "__defineSetter__", "__lookupGetter__", "__lookupSetter__"}

\* what determineActFromLocation returns: undefined, an act, or (line 395,
\* for an inherited key) a member of Object.prototype, which is no act
undefined == <<>>
inheritedMember == <<0>>

\* a ?? b on acts: the first of the two that is defined
firstDefined(a, b) == IF a # undefined THEN a ELSE b

\* Object.entries(locationKeywords), lines 455-483
locationKeywords ==
  << <<"underdark", 1>>, <<"emerald grove", 1>>, <<"druid grove", 1>>,
     <<"the hollow", 1>>, <<"hollow", 1>>, <<"defiled temple", 1>>,
     <<"grymforge", 1>>, <<"mountain pass", 1>>, <<"shadow-cursed", 2>>,
     <<"shadow cursed", 2>>, <<"shadowfell", 2>>, <<"ruined battlefield", 2>>,
     <<"moonrise", 2>>, <<"baldur's gate", 3>>, <<"baldurs gate", 3>>,
     <<"lower city", 3>>, <<"upper city", 3>>,
     <<"cloister of somber embrace", 3>>, <<"cloister", 3>>,
     <<"somber embrace", 3>>, <<"szarr palace", 3>>, <<"murder tribunal", 3>>,
     <<"forge of the nine", 3>>, <<"wyrm's rock fortress", 3>>,
     <<"wyrms rock fortress", 3>>, <<"highberry's home", 3>>,
     <<"highberrys home", 3>> >>

\* s.replace(/^the\s+/, '').trim(), lines 416, 417 and 439
withoutThe(s) ==
  IF startsWith(s, "the") /\ spaceRun(s, 4) >= 1
  THEN trim(substringFrom(s, 4 + spaceRun(s, 4)))
  ELSE trim(s)

\* knownLocation.toLowerCase() and its form without "the", per table entry
lowerKnown == [i \in 1..Len(LOCATION_TO_ACT) |-> toLowerCase(LOCATION_TO_ACT[i][1])]
knownWithoutThe == [i \in 1..Len(LOCATION_TO_ACT) |-> withoutThe(lowerKnown[i])]

\* new RegExp(`\\b${escaped}\\b`, 'i').test(text), lines 446 and 494
wordBoundaryTest(text, word) ==
  \E i \in 1..Len(text) :
    /\ matchesAtCI(text, word, i)
    /\ wordBoundary(text, i)
    /\ wordBoundary(text, i + Len(word))

\* A faulty variant of separatorAt that forgets the '-' separator: C6 tells
\* it from the code.
separatorColonOnly(part, j) ==
  LET run == spaceRun(part, j)
  IN \/ charAt(part, j + run) = ":"
     \/ /\ run >= 1
        /\ \E w \in {"in", "at"} :
             /\ matchesAtCI(part, w, j + run)
             /\ isSpace(charAt(part, j + run + 2))

\* Pattern 1 (line 289): /^([^-:]+?)(?:\s*[-:]\s*|(?:\s+in\s+|\s+at\s+))/i.
\* What may follow the lazy group when it ends before position j.
separatorAt(part, j) ==
  LET run == spaceRun(part, j)
  IN \/ charAt(part, j + run) \in {"-", ":"}
     \/ /\ run >= 1
        /\ \E w \in {"in", "at"} :
             /\ matchesAtCI(part, w, j + run)
             /\ isSpace(charAt(part, j + run + 2))

\* match[1] of pattern 1, absent when the pattern does not match
prefixOrNone(part, k) == IF k = 0 THEN <<>> ELSE <<SubSeq(part, 1, k)>>

nameBeforeSeparator(part) ==
  prefixOrNone(part, minOrZero({k \in 1..Len(part) :
                                  /\ \A i \in 1..k : charAt(part, i) \notin {"-", ":"}
                                  /\ separatorAt(part, k + 1)}))

\* Pattern 2 (line 302):
\* /\b(in|at|within|inside|near|around)\s+([A-Z][a-zA-Z\s]+?)(?:\s|$|,|\.|;)/i
prepositions == <<"in", "at", "within", "inside", "near", "around">>

nameTerminatorAt(part, j) ==
  j > Len(part) \/ isSpace(charAt(part, j)) \/ charAt(part, j) \in {",", ".", ";"}

\* the lazy [a-zA-Z\s]+? from position q: the first position where the
\* group can end, 0 when the group cannot be completed
lazyNameEnd(part, q) ==
  LET ends == {e \in q..Len(part) :
                 /\ \A x \in q..e : charAt(part, x) \in LetterSet \/ isSpace(charAt(part, x))
                 /\ nameTerminatorAt(part, e + 1)}
  IN IF ends = {} THEN 0 ELSE Min(ends)

\* group 2 of pattern 2 for the preposition w at position p: <<start, end>>
nameAfter(part, p, w) ==
  LET run == spaceRun(part, p + Len(w))
      q == p + Len(w) + run
      e == lazyNameEnd(part, q + 1)
  IN IF /\ wordBoundary(part, p)
        /\ matchesAtCI(part, w, p)
        /\ run >= 1
        /\ charAt(part, q) \in LetterSet
        /\ e # 0
     THEN <<SubSeq(part, q, e)>>
     ELSE <<>>

nameAfterNth(part, p, n) == IF n = 0 THEN <<>> ELSE nameAfter(part, p, prepositions[n])

inMatchAt(part, p) ==
  nameAfterNth(part, p,
    minOrZero({n \in 1..Len(prepositions) : nameAfter(part, p, prepositions[n]) # <<>>}))

inMatchAtOrNone(part, p) == IF p = 0 THEN <<>> ELSE inMatchAt(part, p)

\* inMatch[2] of pattern 2, absent when the pattern does not match
nameAfterPreposition(part) ==
  inMatchAtOrNone(part, minOrZero({p \in 1..Len(part) : inMatchAt(part, p) # <<>>}))

\* Pattern 3 (line 317):
\* part.replace(/\b(found|located|obtained|acquired|purchased|sold|dropped|rewarded)\b/gi, '')
fillerWords ==
  {"found", "located", "obtained", "acquired", "purchased", "sold", "dropped", "rewarded"}

fillerAt(s, i) ==
  {w \in fillerWords :
     /\ matchesAtCI(s, w, i)
     /\ wordBoundary(s, i)
     /\ wordBoundary(s, i + Len(w))}

RECURSIVE removeFillerWords(_, _)
removeFillerWords(s, i) ==
  LET at == {j \in i..Len(s) : fillerAt(s, j) # {}}
      j == Min(at)
  IN IF at = {} THEN substringFrom(s, i)
     ELSE SubSeq(s, i, j - 1)
          \o removeFillerWords(s, j + Len(CHOOSE w \in fillerAt(s, j) : TRUE))

\* lines 295-297, 308-310, 321-323: the name, and the name without "The "
withTheStripped(name) ==
  IF startsWith(toLowerCase(name), "the ")
  THEN <<name, trim(substringFrom(name, 5))>>
  ELSE <<name>>

\* the body of the loop of lines 286-326 for one part
\* lines 291-298: the name of pattern 1
namesOfFirst(name1) == IF Len(name1) > 2 THEN withTheStripped(name1) ELSE <<>>

\* lines 304-311: the name of pattern 2
namesOfSecond(name2) ==
  IF Len(name2) > 2 /\ ~includes(toLowerCase(name2), "found")
  THEN withTheStripped(name2) ELSE <<>>

\* lines 315-324: the whole part, when neither pattern matched
namesOfCleaned(cleaned) ==
  IF /\ Len(cleaned) > 2
     /\ ~includes(toLowerCase(cleaned), "chest")
     /\ ~includes(toLowerCase(cleaned), "vendor")
  THEN withTheStripped(cleaned) ELSE <<>>

namesOfMatches(part, match, inMatch) ==
  (IF match # <<>> THEN namesOfFirst(trim(match[1])) ELSE <<>>)
  \o (IF inMatch # <<>> THEN namesOfSecond(trim(inMatch[1])) ELSE <<>>)
  \o (IF match = <<>> /\ inMatch = <<>>
      THEN namesOfCleaned(trim(removeFillerWords(part, 1))) ELSE <<>>)

locationNamesOfPart(part) ==
  namesOfMatches(part, nameBeforeSeparator(part), nameAfterPreposition(part))

RECURSIVE concatNames(_, _)
concatNames(parts, n) ==
  IF n > Len(parts) THEN <<>>
  ELSE locationNamesOfPart(trim(parts[n])) \o concatNames(parts, n + 1)

extractLocationNames(locationText) ==
  IF locationText = "" THEN <<>>
  ELSE concatNames(splitOn(locationText, {"|", ",", ";"}), 1)

\* /\(act\s*(one|two|three|1|2|3)\)/i at position j: the act, 0 when no match
actWords == << <<"one", 1>>, <<"two", 2>>, <<"three", 3>>, <<"1", 1>>, <<"2", 2>>, <<"3", 3>> >>

actMarkerAt(text, j) ==
  LET k == j + 4 + spaceRun(text, j + 4)
      ws == {n \in 1..Len(actWords) :
               /\ matchesAtCI(text, actWords[n][1], k)
               /\ charAt(text, k + Len(actWords[n][1])) = ")"}
  IN IF matchesAtCI(text, "(act", j) /\ ws # {} THEN actWords[Min(ws)][2] ELSE 0

\* line 350: /campsite.*?\(act\s*(one|two|three|1|2|3)\)/i ('.' stops at a line end)
actMarkerAtOrZero(text, j) == IF j = 0 THEN 0 ELSE actMarkerAt(text, j)

campsiteActAt(text, p) ==
  IF matchesAtCI(text, "campsite", p)
  THEN actMarkerAtOrZero(text,
         minOrZero({j \in (p + 8)..Len(text) :
                      /\ actMarkerAt(text, j) # 0
                      /\ \A i \in (p + 8)..(j - 1) : charAt(text, i) \notin {"\n", "\r"}}))
  ELSE 0

campsiteActAtOrZero(text, p) == IF p = 0 THEN 0 ELSE campsiteActAt(text, p)

campsiteActMatch(text) ==
  campsiteActAtOrZero(text, minOrZero({p \in 1..Len(text) : campsiteActAt(text, p) # 0}))

\* line 368: the first "(act N)" of the text
generalMatch(text) ==
  actMarkerAtOrZero(text, minOrZero({j \in 1..Len(text) : actMarkerAt(text, j) # 0}))

\* lines 400-405: the first entry equal to the name, case-insensitively
caseInsensitiveMatch(lowerLocation) ==
  minOrZero({i \in 1..Len(LOCATION_TO_ACT) : lowerKnown[i] = lowerLocation})

\* lines 408-423: the first entry that contains the name or is contained in
\* it, also with a leading "the " removed from both
partialHitOf(lowerLocation, locationWithoutThe, lowerKey, keyWithoutThe) ==
  \/ includes(lowerLocation, lowerKey)
  \/ includes(lowerKey, lowerLocation)
  \/ /\ locationWithoutThe # ""
     /\ keyWithoutThe # ""
     /\ \/ includes(locationWithoutThe, keyWithoutThe)
        \/ includes(keyWithoutThe, locationWithoutThe)

partialHit(lowerLocation, i) ==
  partialHitOf(lowerLocation, withoutThe(lowerLocation), lowerKnown[i], knownWithoutThe[i])

partialMatch(lowerLocation) ==
  minOrZero({i \in 1..Len(LOCATION_TO_ACT) : partialHit(lowerLocation, i)})

\* the act of the entry at position i of the table, undefined for position 0
actOfEntry(i) == IF i = 0 THEN undefined ELSE <<LOCATION_TO_ACT[i][2]>>

exactMatch(locationName) ==
  minOrZero({i \in 1..Len(LOCATION_TO_ACT) : LOCATION_TO_ACT[i][1] = locationName})

\* LOCATION_TO_ACT[locationName], lines 393-397: an own key, else a member
\* every object inherits
directLookup(locationName, exact) ==
  IF exact # 0 THEN actOfEntry(exact)
  ELSE IF locationName \in ObjectPrototypeKeys THEN inheritedMember
  ELSE undefined

lookupLowered(lowerLocation, ci) ==
  IF ci # 0 THEN actOfEntry(ci) ELSE actOfEntry(partialMatch(lowerLocation))

lookupLower(lowerLocation) ==
  lookupLowered(lowerLocation, caseInsensitiveMatch(lowerLocation))

\* the body of the loop of lines 391-424 for one extracted name
lookupLocationName(locationName) ==
  firstDefined(directLookup(locationName, exactMatch(locationName)),
               lookupLower(trim(toLowerCase(locationName))))

\* lines 391-424: the first extracted name that resolves decides
RECURSIVE lookupLocationNames(_, _)
lookupLocationNames(names, n) ==
  IF n > Len(names) THEN undefined
  ELSE firstDefined(lookupLocationName(names[n]), lookupLocationNames(names, n + 1))

\* lines 431-451: the first table entry found in the whole lowercased text
fullTextHitOf(lowerText, lowerKey, keyWithoutThe) ==
  \/ includes(lowerText, lowerKey)
  \/ keyWithoutThe # "" /\ includes(lowerText, keyWithoutThe)
  \/ keyWithoutThe # "" /\ wordBoundaryTest(lowerText, keyWithoutThe)

fullTextHit(lowerText, i) == fullTextHitOf(lowerText, lowerKnown[i], knownWithoutThe[i])

fullTextMatch(lowerText) ==
  actOfEntry(minOrZero({i \in 1..Len(LOCATION_TO_ACT) : fullTextHit(lowerText, i)}))

\* lines 485-500: the first keyword found in the whole lowercased text
keywordHitOf(lowerText, keyword) ==
  \/ includes(lowerText, keyword)
  \/ includes(keyword, " ") /\ wordBoundaryTest(lowerText, keyword)

keywordHit(lowerText, i) == keywordHitOf(lowerText, locationKeywords[i][1])

actOfKeyword(i) == IF i = 0 THEN undefined ELSE <<locationKeywords[i][2]>>

keywordMatch(lowerText) ==
  actOfKeyword(minOrZero({i \in 1..Len(locationKeywords) : keywordHit(lowerText, i)}))

\* A faulty variant of cloisterSomber with || for &&: C5 tells it from the code.
cloisterOrSomber(lowerText) ==
  IF includes(lowerText, "cloister") \/ includes(lowerText, "somber") THEN <<3>> ELSE undefined

\* lines 502-507
cloisterSomber(lowerText) ==
  IF includes(lowerText, "cloister") /\ includes(lowerText, "somber") THEN <<3>> ELSE undefined

\* lines 431-507: the searches in the whole lowercased text
actFromText(lowerText) ==
  firstDefined(fullTextMatch(lowerText),
    firstDefined(keywordMatch(lowerText), cloisterSomber(lowerText)))

\* lines 386-513: everything after the explicit act markers
actFromNames(normalizedText) ==
  firstDefined(lookupLocationNames(extractLocationNames(normalizedText), 1),
               actFromText(toLowerCase(normalizedText)))

actOrUndefined(act) == IF act # 0 THEN <<act>> ELSE undefined

\* lines 348-384: the explicit act markers, the campsite pattern first
actFromMarker(normalizedText) ==
  firstDefined(actOrUndefined(campsiteActMatch(normalizedText)),
               actOrUndefined(generalMatch(normalizedText)))

\* A faulty variant of determineActFromLocation that looks the location
\* names up before the act markers: C8 tells it from the code.
determineActNamesFirst(locationText) ==
  IF locationText = "" THEN undefined
  ELSE firstDefined(actFromNames(trim(locationText)), actFromMarker(trim(locationText)))

determineActFromLocation(locationText) ==
  IF locationText = "" THEN undefined
  ELSE firstDefined(actFromMarker(trim(locationText)), actFromNames(trim(locationText)))

(***************************************************************************)
(* Text Normalizer: removeHTMLComments (547-551), cleanWikiText (675-703). *)
(***************************************************************************)

\* the positions j >= i where t starts in s
occurrencesFrom(s, t, i) == {j \in i..Len(s) : startsWithAt(s, t, j)}

\* text.replace(/<!--[\s\S]*?-->/g, '')
commentAt(s, j) == startsWithAt(s, "<!--", j) /\ occurrencesFrom(s, "-->", j + 4) # {}

RECURSIVE stripComments(_, _)
stripComments(s, i) ==
  LET at == {j \in i..Len(s) : commentAt(s, j)}
      j == Min(at)
  IN IF at = {} THEN substringFrom(s, i)
     ELSE SubSeq(s, i, j - 1) \o stripComments(s, Min(occurrencesFrom(s, "-->", j + 4)) + 3)

removeHTMLComments(text) == IF text = "" THEN "" ELSE trim(stripComments(text, 1))

\* cleaned.replace(/<[^>]+>/g, '')
tagAt(s, j) ==
  /\ charAt(s, j) = "<"
  /\ occurrencesFrom(s, ">", j + 1) # {}
  /\ Min(occurrencesFrom(s, ">", j + 1)) >= j + 2

RECURSIVE stripTags(_, _)
stripTags(s, i) ==
  LET at == {j \in i..Len(s) : tagAt(s, j)}
      j == Min(at)
  IN IF at = {} THEN substringFrom(s, i)
     ELSE SubSeq(s, i, j - 1) \o stripTags(s, Min(occurrencesFrom(s, ">", j + 1)) + 1)

\* lines 689-690: linkText.split('|'), the last part
lastPipePart(linkText) ==
  LET parts == splitOn(linkText, {"|"}) IN parts[Len(parts)]

\* length of the run of characters other than ']' at position i: [^\]]+
nonBracketRun(s, i) ==
  Min({j \in i..(Len(s) + 1) : j > Len(s) \/ charAt(s, j) = "]"}) - i

linkAt(s, j) ==
  /\ startsWithAt(s, "[[", j)
  /\ nonBracketRun(s, j + 2) >= 1
  /\ startsWithAt(s, "]]", j + 2 + nonBracketRun(s, j + 2))

\* cleaned.replace(/\[\[([^\]]+)\]\]/g, ...), lines 687-691
RECURSIVE resolveLinks(_, _)
resolveLinks(s, i) ==
  LET at == {j \in i..Len(s) : linkAt(s, j)}
      j == Min(at)
      run == nonBracketRun(s, j + 2)
  IN IF at = {} THEN substringFrom(s, i)
     ELSE SubSeq(s, i, j - 1) \o lastPipePart(SubSeq(s, j + 2, j + 1 + run))
          \o resolveLinks(s, j + 4 + run)

\* cleaned.replace(/\n+/g, ' ')
RECURSIVE replaceNewlines(_)
replaceNewlines(s) ==
  LET at == {i \in 1..Len(s) : charAt(s, i) = "\n"}
      i == Min(at)
      next == Min({j \in i..(Len(s) + 1) : charAt(s, j) # "\n"})
  IN IF at = {} THEN s
     ELSE SubSeq(s, 1, i - 1) \o " " \o replaceNewlines(substringFrom(s, next))

cleanWikiText(text) ==
  IF text = "" THEN ""
  ELSE LET noComments == removeHTMLComments(trim(text))
           noTags == stripTags(noComments, 1)
           noLinks == resolveLinks(noTags, 1)
       IN trim(replaceSpaceRuns(replaceNewlines(noLinks), " "))

(***************************************************************************)
(* Item Classifier: isEquippableItem (bg3WikiApi.ts 59-123).               *)
(***************************************************************************)

\* lines 66-80: /\{\{\s*weapon/i, ... (the names only)
itemTemplatePatterns ==
  <<"weapon", "item", "armor", "helmet", "boot", "glove", "ring", "amulet",
    "cloak", "shield", "accessory", "clothing", "robe">>

\* lines 83-96: /\[\[category:\s*items?/i, ... ; the optional final 's' of a
\* pattern never decides a test, so the part before it is listed
itemCategoryPatterns ==
  <<"item", "weapon", "armor", "equipment", "accessorie", "ring", "amulet",
    "helmet", "boot", "glove", "shield", "cloak">>

\* /<open>\s*<name>/i.test(content)
openerThenName(content, open, name) ==
  \E i \in 1..Len(content) :
    /\ matchesAtCI(content, open, i)
    /\ LET run == spaceRun(content, i + Len(open))
       IN \E m \in 0..run : matchesAtCI(content, name, i + Len(open) + m)

\* /\|\s*<name>\s*=/i.test(content), lines 109, 112 and 115
hasField(content, name) ==
  \E p \in 1..Len(content) : fieldPatternEndAt(content, p, name) # 0

\* A faulty variant of isEquippableItem that takes the id field alone for a
\* signal: C10 tells it from the code.
isEquippableItemByIdAlone(content) ==
  IF content = "" \/ trim(content) = "" THEN FALSE
  ELSE \/ \E n \in 1..Len(itemTemplatePatterns) :
            openerThenName(content, "{{", itemTemplatePatterns[n])
       \/ \E n \in 1..Len(itemCategoryPatterns) :
            openerThenName(content, "[[category:", itemCategoryPatterns[n])
       \/ hasField(content, "uuid")
       \/ hasField(content, "uid")

isEquippableItem(content) ==
  IF content = "" \/ trim(content) = "" THEN FALSE
  ELSE LET hasItemTemplate ==
             \E n \in 1..Len(itemTemplatePatterns) :
               openerThenName(content, "{{", itemTemplatePatterns[n])
           hasItemCategory ==
             \E n \in 1..Len(itemCategoryPatterns) :
               openerThenName(content, "[[category:", itemCategoryPatterns[n])
           hasUuid == hasField(content, "uuid")
           hasUid == hasField(content, "uid")
           hasItemFields ==
             \E f \in {"rarity", "damage", "enchantment", "type", "category"} :
               hasField(content, f)
       IN hasItemTemplate \/ hasItemCategory \/ ((hasUuid \/ hasUid) /\ hasItemFields)

(***************************************************************************)
(* Content Parser: parseWikiContent (bg3WikiApi.ts 557-798).  An item is a *)
(* record of the fields of WikiItem; an optional field that is not set is  *)
(* the empty sequence.                                                     *)
(***************************************************************************)

\* line 733: the numbered location fields run from 2 to 20
MaxLocationIndex == 20
\* line 752: the look-ahead visits the next 3 indices
CheckAhead == 3
\* line 764: the scan stops when the look-ahead counted 3 misses
MissLimit == 3

\* String(n) for 0 <= n <= 99
numStr(n) ==
  IF n < 10 THEN SubSeq(Digits, n + 1, n + 1)
  ELSE SubSeq(Digits, (n \div 10) + 1, (n \div 10) + 1) \o SubSeq(Digits, (n % 10) + 1, (n % 10) + 1)

\* [^\n|}] of the patterns of lines 561, 571 and 581
valueChar(c) == c # "" /\ c \notin {"\n", "|", "}"}

\* \s*([^\n|}]+) from position e, right after the '=': the greedy \s* gives
\* whitespace back until the group finds a first character; 0 when it cannot
simpleValueStart(content, e) ==
  LET run == spaceRun(content, e)
      good == {m \in 0..run : valueChar(charAt(content, e + m))}
  IN IF good = {} THEN 0 ELSE e + Max(good)

valueRunEnd(content, s) ==
  Min({j \in s..(Len(content) + 1) : ~valueChar(charAt(content, j))})

\* content.match(/\|\s*<name>\s*=\s*([^\n|}]+)/i): group 1 of the first match
\* the start of group 1 of the pattern anchored at position p, 0 when it does not match there
simpleValueAfter(content, e) == IF e = 0 THEN 0 ELSE simpleValueStart(content, e)

simpleMatchAt(content, p, name) ==
  simpleValueAfter(content, fieldPatternEndAt(content, p, name))

valueRun(content, s) == <<SubSeq(content, s, valueRunEnd(content, s) - 1)>>

simpleMatchFrom(content, p, name) ==
  IF p = 0 THEN <<>> ELSE valueRun(content, simpleMatchAt(content, p, name))

simpleFieldMatch(content, name) ==
  simpleMatchFrom(content,
    minOrZero({p \in 1..Len(content) : simpleMatchAt(content, p, name) # 0}), name)

\* s.replace(/}}+/g, ''): every run of two or more '}' is removed
RECURSIVE stripClosingBraces(_)
stripClosingBraces(s) ==
  LET at == {i \in 1..Len(s) : startsWithAt(s, "}}", i)}
      i == Min(at)
      next == Min({j \in i..(Len(s) + 1) : charAt(s, j) # "}"})
  IN IF at = {} THEN s
     ELSE SubSeq(s, 1, i - 1) \o stripClosingBraces(substringFrom(s, next))

\* lines 562-568 and 572-578: the rarity and the uuid of the item
cleanedMatch(m) ==
  IF m = <<>> THEN <<>> ELSE <<trim(stripClosingBraces(removeHTMLComments(trim(m[1]))))>>

simpleField(content, name) == cleanedMatch(simpleFieldMatch(content, name))

withoutTags(d) == IF d = <<>> THEN <<>> ELSE <<trim(stripTags(d[1], 1))>>

\* lines 582-588: the description, with its HTML tags removed
descriptionField(content) == withoutTags(simpleField(content, "description"))

\* name ? cleanWikiText(name) : undefined, lines 725-726 and 744-745
cleanedOrUndefined(v) == IF v = <<>> THEN <<>> ELSE <<cleanWikiText(v[1])>>

\* lines 720-721 and 734-739: the name and the detail field of one index
\* (suffix "" for the base fields), the longer field name first
locationFields(content, suffix) ==
  [name |-> extractWithVariations(content, "where to find location" \o suffix),
   detail |-> extractWithVariations(content, "where to find" \o suffix)]

\* lines 725-726 and 744-745: the entry that is pushed
cleanedEntry(fields) ==
  [name |-> cleanedOrUndefined(fields.name), detail |-> cleanedOrUndefined(fields.detail)]

\* locationName || locationDetail: one of the two fields of the index exists
eitherFound(fields) == fields.name # <<>> \/ fields.detail # <<>>

locationEntry(content, suffix) == cleanedEntry(locationFields(content, suffix))

locationFound(content, suffix) == eitherFound(locationFields(content, suffix))

\* lines 751-763: the look-ahead from a missing index; a hit resets the count
consecutiveMisses(content, locationIndex) ==
  LET ahead == {checkAhead \in (locationIndex + 1)..(locationIndex + CheckAhead) :
                  checkAhead <= MaxLocationIndex}
  IN IF \E checkAhead \in ahead : locationFound(content, numStr(checkAhead))
     THEN 0
     ELSE Cardinality(ahead)

\* A faulty variant of the scan that stops at the first missing index,
\* without looking ahead: C11 tells it from the code.
scanGivesUpAtFirstMiss(content, locationIndex) ==
  ~locationFound(content, numStr(locationIndex))

\* line 764: break
scanGivesUp(content, locationIndex) ==
  consecutiveMisses(content, locationIndex) >= MissLimit

\* one round of the loop: push and go on, break, or go on
pushOrBreak(fields, givesUp, rest) ==
  IF eitherFound(fields) THEN <<cleanedEntry(fields)>> \o rest
  ELSE IF givesUp THEN <<>>
  ELSE rest

\* the loop of lines 733-768 from locationIndex on: the entries it pushes
RECURSIVE numberedEntries(_, _)
numberedEntries(content, locationIndex) ==
  IF locationIndex > MaxLocationIndex THEN <<>>
  ELSE pushOrBreak(locationFields(content, numStr(locationIndex)),
                   scanGivesUp(content, locationIndex),
                   numberedEntries(content, locationIndex + 1))

\* lines 771-778: without entries, the simple "location" field is the one entry
simpleEntry(locationSimple) ==
  IF locationSimple # <<>> /\ locationSimple # <<"">>
  THEN <<[name |-> <<>>, detail |-> <<cleanWikiText(locationSimple[1])>>]>>
  ELSE <<>>

entriesOrSimple(entries, content) ==
  IF entries # <<>> THEN entries ELSE simpleEntry(extractFieldValue(content, "location"))

\* lines 720-729: the entry of the base fields
pushIfFound(fields) == IF eitherFound(fields) THEN <<cleanedEntry(fields)>> ELSE <<>>

baseEntry(content) == pushIfFound(locationFields(content, ""))

\* lines 707-778: locationEntries
locationEntries(content) ==
  entriesOrSimple(baseEntry(content) \o numberedEntries(content, 2), content)

\* truthiness of an optional string: undefined and '' are falsy
truthy(v) == v # <<>> /\ v # <<"">>

\* A faulty variant of locationPart that puts the detail before the name:
\* C23 tells it from the code.
locationPartDetailFirst(entry) ==
  IF truthy(entry.name) /\ truthy(entry.detail) THEN entry.detail[1] \o " - " \o entry.name[1]
  ELSE IF truthy(entry.name) THEN entry.name[1]
  ELSE IF truthy(entry.detail) THEN entry.detail[1]
  ELSE ""

\* lines 782-790: the rendering of one entry
locationPart(entry) ==
  IF truthy(entry.name) /\ truthy(entry.detail) THEN entry.name[1] \o " - " \o entry.detail[1]
  ELSE IF truthy(entry.name) THEN entry.name[1]
  ELSE IF truthy(entry.detail) THEN entry.detail[1]
  ELSE ""

\* parts.join(sep)
RECURSIVE join(_, _)
join(parts, sep) ==
  IF parts = <<>> THEN ""
  ELSE IF Len(parts) = 1 THEN parts[1]
  ELSE parts[1] \o sep \o join(Tail(parts), sep)

nonEmpty(part) == part # ""

\* A faulty variant that sets where_to_find also when there is no location
\* entry: C15 tells it from the code.
whereToFindAlways(entries) ==
  <<join(SelectSeq([n \in 1..Len(entries) |-> locationPart(entries[n])], nonEmpty), " | ")>>

\* lines 781-795: item.where_to_find
whereToFindOf(entries) ==
  IF entries = <<>> THEN <<>>
  ELSE <<join(SelectSeq([n \in 1..Len(entries) |-> locationPart(entries[n])], nonEmpty), " | ")>>

parseWikiContent(content, title) ==
  [name |-> title,
   rarity |-> simpleField(content, "rarity"),
   uuid |-> simpleField(content, "uuid"),
   description |-> descriptionField(content),
   where_to_find |-> whereToFindOf(locationEntries(content)),
   act |-> <<>>]

(***************************************************************************)
(* Persistence: utils/storage.ts, the version with builds (part_005).      *)
(* A stored value is a list of builds or a list of items; of its JSON text *)
(* the model keeps the value it stands for and its length.  The lists are  *)
(* one build "My First Run" holding n items of the usual shape, or n such  *)
(* items: the JSON text of the build alone has 93 characters, 147 once     *)
(* percent-encoded; an item has 128, 196 once encoded, and the comma       *)
(* between two items is 1 character, 3 once encoded.                       *)
(***************************************************************************)
STORAGE_KEY == "bg3-item-checklist"
BUILDS_STORAGE_KEY == "bg3-builds"
COOKIE_MAX_AGE == 365 * 24 * 60 * 60

\* line 164: the size above which saveBuilds leaves the cookie for localStorage
CookieThreshold == 4000
\* line 163: the size of a cookie the browser takes
CookieLimit == 4096

StorageKeys == {STORAGE_KEY, BUILDS_STORAGE_KEY}

buildList(rev, n) == [type |-> "builds", rev |-> rev, items |-> n]
itemList(rev, n) == [type |-> "items", rev |-> rev, items |-> n]

\* JSON.stringify(value): the text, by the value it encodes, and its length
JSONstringify(value) ==
  [json |-> value,
   length |-> (IF value.type = "builds" THEN 93 ELSE 2)
              + (IF value.items = 0 THEN 0 ELSE 128 * value.items + (value.items - 1))]

JSONparse(text) == text.json

\* encodeURIComponent(text): every '"', ':', ',', '{', '}', '[', ']' and
\* space of the JSON text becomes three characters
encodeURIComponent(text) ==
  [encoded |-> text,
   length |-> (IF text.json.type = "builds" THEN 147 ELSE 6)
              + (IF text.json.items = 0 THEN 0
                 ELSE 196 * text.json.items + 3 * (text.json.items - 1))]

decodeURIComponent(encodedValue) == encodedValue.encoded

\* lines 11-20: document.cookie = `${name}=${encodedValue}; max-age=...`; the
\* outcomes the browser can produce.  max-age=0 removes the cookie; a cookie
\* whose name and value exceed the size the browser takes is dropped by
\* current browsers and kept by a browser without that limit.
setCookie(jar, name, value, maxAge) ==
  IF maxAge = 0 THEN {[jar EXCEPT ![name] = <<>>]}
  ELSE LET encodedValue == encodeURIComponent(value[1])
           stored == [jar EXCEPT ![name] = <<encodedValue>>]
       IN IF Len(name) + encodedValue.length > CookieLimit THEN {jar, stored}
          ELSE {stored}

\* lines 25-44: the decoded value of the cookie, null when there is none
getCookie(jar, name) ==
  IF jar[name] = <<>> THEN <<>> ELSE <<decodeURIComponent(jar[name][1])>>

\* localStorage.setItem inside try/catch: nothing happens when it throws
setItemOrIgnore(st, key, text) ==
  IF st.localAvailable THEN [st EXCEPT !.local[key] = <<text>>] ELSE st

\* the shared body of saveBuilds (158-193) and saveItems (199-239)
saveUnder(st, key, value) ==
  LET jsonString == JSONstringify(value)
      dataSize == jsonString.length
  IN IF dataSize > CookieThreshold /\ st.localAvailable
     THEN {[setItemOrIgnore(st, key, jsonString) EXCEPT !.cookie = jar] :
             jar \in setCookie(st.cookie, key, <<>>, 0)}
     ELSE {setItemOrIgnore([st EXCEPT !.cookie = jar], key, jsonString) :
             jar \in setCookie(st.cookie, key, <<jsonString>>, COOKIE_MAX_AGE)}

saveItems(st, items) == saveUnder(st, STORAGE_KEY, items)

saveBuilds(st, value) == saveUnder(st, BUILDS_STORAGE_KEY, value)

\* lines 49-80: the items and the storage left behind
loadItems(st) ==
  LET cookieData == getCookie(st.cookie, STORAGE_KEY)
      stored == st.local[STORAGE_KEY]
  IN IF cookieData # <<>> THEN {[value |-> JSONparse(cookieData[1]), storage |-> st]}
     ELSE IF st.localAvailable /\ stored # <<>>
     THEN {[value |-> JSONparse(stored[1]), storage |-> after] :
             after \in saveItems(st, JSONparse(stored[1]))}
     ELSE {[value |-> itemList(0, 0), storage |-> st]}

\* lines 114-119 and 126-131: the default build; generateId() and Date.now()
\* make it a build no save has written (rev 0)
defaultBuild(oldItems) == buildList(0, oldItems.items)

\* lines 85-146: the builds and the storage left behind
loadBuilds(st) ==
  LET cookieData == getCookie(st.cookie, BUILDS_STORAGE_KEY)
      stored == st.local[BUILDS_STORAGE_KEY]
  IN IF cookieData # <<>> THEN {[value |-> JSONparse(cookieData[1]), storage |-> st]}
     ELSE IF st.localAvailable /\ stored # <<>>
     THEN {[value |-> JSONparse(stored[1]), storage |-> after] :
             after \in saveBuilds(st, JSONparse(stored[1]))}
     ELSE UNION {{[value |-> defaultBuild(old.value), storage |-> after] :
                    after \in saveBuilds(old.storage, defaultBuild(old.value))} :
                 old \in loadItems(st)}

(***************************************************************************)
(* Rendered HTML (bg3WikiApi.ts 130-197, 520-542).  Of a rendered page the *)
(* model keeps what the section extractor reads from the parsed document:  *)
(* whether the text is the empty string, and, in document order, its span  *)
(* elements that carry an id.  Of each span it keeps the id, whether one   *)
(* of its ancestors is a heading h1..h6, and, in document order, the tag   *)
(* name and the textContent of each element sibling that follows that      *)
(* heading.                                                                *)
(***************************************************************************)
element(tagName, textContent) == [tagName |-> tagName, textContent |-> textContent]

\* tagName.match(/^H[1-6]$/)
isHeading(tagName) == tagName \in {"H1", "H2", "H3", "H4", "H5", "H6"}

\* lines 138-145
idVariations(anchorId) ==
  <<replaceSpaceRuns(toLowerCase(anchorId), "_"),
    replaceSpaceRuns(anchorId, "_"),
    toLowerCase(anchorId),
    anchorId,
    replaceSpaceRuns(anchorId, "-"),
    replaceSpaceRuns(toLowerCase(anchorId), "-")>>

\* doc.querySelector(`span[id="${id}"]`): the first span with that id, in document order
querySelector(html, id) ==
  LET at == {k \in 1..Len(html.spans) : html.spans[k].id = id}
  IN IF at = {} THEN <<>> ELSE <<html.spans[Min(at)]>>

\* lines 149-152: the span of the first id variation that selects one
targetSpan(html, anchorId) ==
  LET ids == idVariations(anchorId)
      found == {v \in 1..Len(ids) : querySelector(html, ids[v]) # <<>>}
  IN IF found = {} THEN <<>> ELSE querySelector(html, ids[Min(found)])

\* text.match(/^\[edit\]$/i)
isEditLink(text) == Len(text) = 6 /\ matchesAtCI(text, "[edit]", 1)

\* A faulty variant of untilHeading that reads on past the next heading:
\* C24 tells it from the code.
untilLastSibling(siblings) == siblings

\* lines 170-176 and 184: the siblings the loop visits, which are those
\* before the first sibling that is a heading
untilHeading(siblings) ==
  SubSeq(siblings, 1,
         Min({k \in 1..(Len(siblings) + 1) :
                k > Len(siblings) \/ isHeading(siblings[k].tagName)}) - 1)

\* lines 179-182: the sibling texts that are kept, trimmed
keptText(text) == trim(text) # "" /\ ~isEditLink(text)

keptElement(sibling) == keptText(sibling.textContent)

partsOf(kept) == [k \in 1..Len(kept) |-> trim(kept[k].textContent)]

contentParts(siblings) == partsOf(SelectSeq(untilHeading(siblings), keptElement))

\* s.replace(/\[edit\]/gi, '')
RECURSIVE removeEditLinks(_)
removeEditLinks(s) ==
  LET at == {i \in 1..Len(s) : matchesAtCI(s, "[edit]", i)}
  IN IF at = {} THEN s
     ELSE SubSeq(s, 1, Min(at) - 1) \o removeEditLinks(substringFrom(s, Min(at) + 6))

\* lines 187-196: null without parts, else the parts joined and cleaned up
sectionText(parts) ==
  IF parts = <<>> THEN <<>>
  ELSE <<trim(removeEditLinks(replaceSpaceRuns(join(parts, " "), " ")))>>

\* lines 154-185: null without a span or without a heading around it
sectionOf(span) ==
  IF span = <<>> THEN <<>>
  ELSE IF ~span[1].inHeading THEN <<>>
  ELSE sectionText(contentParts(span[1].siblings))

extractSectionFromHTML(html, anchorId) ==
  IF html.blank THEN <<>> ELSE sectionOf(targetSpan(html, anchorId))

\* lines 524-532
possibleAnchors ==
  <<"Where_to_find", "Where_to_Find", "where_to_find",
    "Location", "location", "Locations", "locations">>

\* line 536: the least length a section must exceed to be returned
MeaningfulLength == 10

\* line 536
meaningful(content) == truthy(content) /\ Len(content[1]) > MeaningfulLength

\* lines 534-539: the loop over the anchors from anchor a on
meaningfulOr(content, next) == IF meaningful(content) THEN content ELSE next

RECURSIVE firstMeaningful(_, _)
firstMeaningful(html, a) ==
  IF a > Len(possibleAnchors) THEN <<>>
  ELSE meaningfulOr(extractSectionFromHTML(html, possibleAnchors[a]),
                    firstMeaningful(html, a + 1))

extractWhereToFindFromHTML(html) ==
  IF html.blank THEN <<>> ELSE firstMeaningful(html, 1)

(***************************************************************************)
(* The two entry points: searchItems (bg3WikiApi.ts 803-966) and           *)
(* getItemByName (971-1052).  A page of a content response is a record of  *)
(* its title, its wikitext, whether it has a revision, and whether the     *)
(* revision's content is a string.  An async function settles as a record  *)
(* [settled, value]: it resolves with a value or rejects.                  *)
(***************************************************************************)
resolved(value) == [settled |-> "resolved", value |-> value]
rejected(value) == [settled |-> "rejected", value |-> value]

\* lines 829-838
excludedPatterns ==
  <<"category:", "template:", "user:", "talk:", "help:", "file:", "media:", "special:">>

\* lines 827-841: the callback of searchResults.filter
keptResult(title) ==
  ~\E p \in 1..Len(excludedPatterns) : includes(toLowerCase(title), excludedPatterns[p])

\* line 845: slice(0, 15)
TitleLimit == 15

\* lines 826-845
itemTitles(search) ==
  LET kept == SelectSeq(search, keptResult)
  IN SubSeq(kept, 1, Min({Len(kept), TitleLimit}))

\* lines 868-872: the wikitext of a page, '' when it has no revision
contentOf(page) == IF page.hasRevision THEN page.content ELSE ""

\* `if (act) item.act = act`
setAct(item, act) == IF act # undefined THEN [item EXCEPT !.act = act] ELSE item

\* const act = await determineActFromLocation(locationText), and the assignment
withAct(item, locationText) == setAct(item, determineActFromLocation(locationText))

\* lines 937-947 of searchItems: the item of a page whose rendered HTML could not be had
withActOfRawLocation(item) ==
  IF truthy(item.where_to_find) THEN withAct(item, item.where_to_find[1]) ELSE item

fallbackItem(content, title) == withActOfRawLocation(parseWikiContent(content, title))

\* lines 897-928: the rendered section replaces the location and gives the
\* act; without one the raw location gives the act
withSection(item, whereToFind) ==
  IF truthy(whereToFind)
  THEN withAct([item EXCEPT !.where_to_find = whereToFind], whereToFind[1])
  ELSE withActOfRawLocation(item)

\* A faulty variant of renderedItem that classifies the raw location and
\* keeps that act when the rendered section replaces the location: C16
\* tells it from the code.
renderedItemActFromRaw(content, title, html) ==
  [fallbackItem(content, title) EXCEPT
     !.where_to_find = IF truthy(extractWhereToFindFromHTML(html))
                       THEN extractWhereToFindFromHTML(html) ELSE @]

\* lines 890-930 of searchItems: the item of a page whose rendered HTML was fetched
renderedItem(content, title, html) ==
  withSection(parseWikiContent(content, title), extractWhereToFindFromHTML(html))

\* lines 1011-1026 of getItemByName: the rendered section, when there is one, replaces the location
withRenderedSection(item, whereToFind) ==
  IF truthy(whereToFind)
  THEN withAct([item EXCEPT !.where_to_find = whereToFind], whereToFind[1])
  ELSE item

withRenderedLocation(item, html) ==
  withRenderedSection(item, extractWhereToFindFromHTML(html))

\* lines 1034-1042 of getItemByName
withActOfLocation(item) ==
  IF truthy(item.where_to_find) /\ item.act = undefined
  THEN withAct(item, item.where_to_find[1])
  ELSE item

\* s.localeCompare(t), by the collation of the names the wiki gives its
\* pages: punctuation, then digits, then letters, the case of a letter
\* counting only between names that are otherwise equal, lower case first
collationOrder == " _-,:'()" \o Digits \o LowerAlpha

collationWeight(c) ==
  LET at == {k \in 1..Len(collationOrder) : charAt(collationOrder, k) = lowerChar(c)}
  IN IF at = {} THEN 0 ELSE Min(at)

localeCompare(s, t) ==
  LET both == 1..Min({Len(s), Len(t)})
      primary == {k \in both : collationWeight(charAt(s, k)) # collationWeight(charAt(t, k))}
      tertiary == {k \in both : charAt(s, k) # charAt(t, k)}
  IN IF primary # {}
     THEN (IF collationWeight(charAt(s, Min(primary))) < collationWeight(charAt(t, Min(primary)))
           THEN -1 ELSE 1)
     ELSE IF Len(s) # Len(t) THEN (IF Len(s) < Len(t) THEN -1 ELSE 1)
     ELSE IF tertiary # {}
     THEN (IF charAt(s, Min(tertiary)) \in LowerSet THEN -1 ELSE 1)
     ELSE 0

\* lines 956-957
isExact(item, query) == toLowerCase(item.name) = toLowerCase(query)

\* A faulty variant of compareItems that orders by name alone: C17 tells it
\* from the code.
compareByName(a, b, query) == localeCompare(a.name, b.name)

\* lines 955-961: the comparator of the sort
compareItems(a, b, query) ==
  IF isExact(a, query) /\ ~isExact(b, query) THEN -1
  ELSE IF ~isExact(a, query) /\ isExact(b, query) THEN 1
  ELSE localeCompare(a.name, b.name)

\* Array.prototype.sort with that comparator: a stable sort, here by insertion
RECURSIVE sortItems(_, _)
insertAt(front, last, at) ==
  SubSeq(front, 1, at) \o <<last>> \o SubSeq(front, at + 1, Len(front))

\* last goes behind the last item of the sorted front that is not after it
insertSorted(front, last, query) ==
  insertAt(front, last,
           Max({0} \cup {k \in 1..Len(front) : compareItems(front[k], last, query) <= 0}))

sortItems(items, query) ==
  IF items = <<>> THEN <<>>
  ELSE insertSorted(sortItems(SubSeq(items, 1, Len(items) - 1), query), items[Len(items)], query)

\* line 952: the items that are not null and have a name
validItem(slot) == slot # <<>> /\ slot[1].name # ""

validItems(slots) ==
  LET valid == SelectSeq(slots, validItem)
  IN [k \in 1..Len(valid) |-> valid[k][1]]

\* A faulty variant of searchItemsCatch that lets the error through: C13
\* tells it from the code.
searchItemsRethrow(error) == rejected(error)

\* lines 962-965: the catch of searchItems
searchItemsCatch(error) == resolved(<<>>)

\* lines 1048-1051: the catch of getItemByName
getItemByNameCatch(error) == resolved(<<>>)

(***************************************************************************)
(* The calls the scraper's functions are checked on.  Every call record    *)
(* keeps, next to the argument strings, the pieces its argument was built  *)
(* from, so that a property can speak about "the value of the field" or    *)
(* "the location named in the text".                                       *)
(***************************************************************************)

\* the widest whitespace padding put after a '|', a '{{' or "(Act"
MaxPad == 1
\* how many of the detail texts follow a location name
NumDetails == 4
RECURSIVE spaces(_)
spaces(n) == IF n = 0 THEN "" ELSE " " \o spaces(n - 1)

\* the base fields and the numbered variants: "", "2", ..., "20"
LocationSuffixes == {""} \cup {numStr(n) : n \in 2..MaxLocationIndex}

field(n, v) == [name |-> n, value |-> v]

SiblingPairs ==
  {[kind |-> "siblings", first |-> field("rarity", "Common"), second |-> field("uuid", "abc")]}

NestedPairs ==
  {[kind |-> "nested",
    first |-> field("description", "Crafted by {{CharLink|Wyll}}."),
    second |-> field("rarity", "Rare")]}

longField(x) == field("where to find location" \o x, "Underdark")
shortField(x) == field("where to find" \o x, "Dropped by {{CharLink|Wyll}}")

WherePairs ==
  {[kind |-> "where", first |-> longField(x), second |-> shortField(x)] : x \in LocationSuffixes}
  \cup
  {[kind |-> "where", first |-> shortField(x), second |-> longField(x)] : x \in LocationSuffixes}

\* a template body of two sibling fields, one per line
twoFieldMarkup(pair, pad1, pad2, tail) ==
  "|" \o spaces(pad1) \o pair.first.name \o " = " \o pair.first.value \o "\n"
  \o "|" \o spaces(pad2) \o pair.second.name \o " = " \o pair.second.value \o tail

fieldCalls(fn, pairs) ==
  {[fn |-> fn,
    content |-> twoFieldMarkup(pair, pad1, pad2, tail),
    fieldName |-> IF asked = 1 THEN pair.first.name ELSE pair.second.name,
    value |-> IF asked = 1 THEN pair.first.value ELSE pair.second.value,
    other |-> IF asked = 1 THEN pair.second.value ELSE pair.first.value,
    kind |-> pair.kind, asked |-> asked, pad1 |-> pad1, pad2 |-> pad2] :
   pair \in pairs, pad1 \in 0..MaxPad, pad2 \in 0..MaxPad,
   tail \in {"", "\n}}"}, asked \in {1, 2}}

\* what stands before a nested call inside a value: a space, a newline, a
\* '|', a '(', a letter, or nothing
BeforeNested == {"Sold by ", "Sold by\n", "Sold|", "Sold by (", "Rune", ""}

NestedCalls == {"{{CharLink|Wyll}}", "{{Tooltip|{{Icon|x}}}}"}

\* a description that holds one nested call and closes the template
BraceCalls ==
  {[fn |-> "extractField",
    content |-> "| description = " \o before \o nested \o after \o "\n}}",
    fieldName |-> "description",
    value |-> trim(before \o nested \o after),
    kind |-> "brace", before |-> before, nested |-> nested] :
   before \in BeforeNested, nested \in NestedCalls, after \in {"", ") in camp"}}

ExtractFieldCalls ==
  fieldCalls("extractField", SiblingPairs \cup NestedPairs \cup WherePairs) \cup BraceCalls
ExtractWithVariationsCalls == fieldCalls("extractWithVariations", WherePairs)

\* texts that may follow "<location> - "
DetailTexts ==
  <<"found in a chest", "Lower City", "Found in the Underdark", "",
    "sold by a vendor at Moonrise Towers; Rivington", "Found in a chest",
    "near Grymforge, at the docks">>

Details == {DetailTexts[n] : n \in 1..NumDetails}

KnownLocations == 1..Len(LOCATION_TO_ACT)

actCall(text, kind, name, act) ==
  [fn |-> "classifyAct", text |-> text, kind |-> kind, name |-> name, act |-> act]

\* a canonical location name alone, or followed by " - " and a detail
NameCalls ==
  {actCall(LOCATION_TO_ACT[i][1], "name", LOCATION_TO_ACT[i][1], LOCATION_TO_ACT[i][2]) :
     i \in KnownLocations}
  \cup
  {actCall(LOCATION_TO_ACT[i][1] \o " - " \o d, "nameDetail",
           LOCATION_TO_ACT[i][1], LOCATION_TO_ACT[i][2]) :
     i \in KnownLocations, d \in Details}

\* a canonical location name inside a phrase: <<before, after>>
Phrases ==
  {<<"Found in the ", "">>, <<"Found in ", "">>, <<"", " area">>,
   <<"", " area, near the Sussur Tree">>}

PhraseCalls ==
  {actCall(ph[1] \o LOCATION_TO_ACT[i][1] \o ph[2], "phrase",
           LOCATION_TO_ACT[i][1], LOCATION_TO_ACT[i][2]) :
     i \in KnownLocations, ph \in Phrases}

\* spellings of the parenthetical act marker: <<"act", number word, act>>
MarkerSpellings ==
  {<<"Act", "One", 1>>, <<"Act", "Two", 2>>, <<"Act", "Three", 3>>,
   <<"Act", "1", 1>>, <<"Act", "2", 2>>, <<"Act", "3", 3>>,
   <<"act", "two", 2>>, <<"ACT", "THREE", 3>>}

actMarker(sp, pad) == "(" \o sp[1] \o spaces(pad) \o sp[2] \o ")"

MarkerBases ==
  {LOCATION_TO_ACT[i][1] : i \in KnownLocations}
  \cup {"Campsite", "Found in the Underdark", "A mysterious shop"}

\* one act marker after or before a text that may name locations of other acts
MarkerCalls ==
  {actCall(IF after THEN base \o " " \o actMarker(sp, pad)
                    ELSE actMarker(sp, pad) \o " " \o base,
           "marker", base, sp[3]) :
     base \in MarkerBases, sp \in MarkerSpellings, pad \in 0..MaxPad, after \in BOOLEAN}

\* texts with both "cloister" and "somber", in either order
CloisterSomberCalls ==
  {actCall(a \o w[1] \o b \o w[2] \o c, "cloisterSomber", "", 3) :
     a \in {"", "Found near the ", "Old "},
     w \in {<<"Cloister", "Somber">>, <<"Somber", "Cloister">>,
            <<"cloister", "somber">>},
     b \in {" ", ", in the ", " of "},
     c \in {"", " wing", " Embrace"}}

\* texts that name no location of the table
FreeTexts ==
  {"A mysterious shop", "Old mill", "Tower", "Found near the shop", "constructor",
   "Somber wing", "Bought from a trader", "Gate", "The shop", "Sold by vendor",
   "Reward for the quest", "Camp: supply chest"}

FreeCalls == {actCall(t, "free", "", 0) : t \in FreeTexts}

ClassifyActCalls ==
  NameCalls \cup PhraseCalls \cup MarkerCalls \cup CloisterSomberCalls \cup FreeCalls

\* markup-bearing strings: a link whose target, and whose surroundings, are
\* fragments of link, tag, comment and template syntax, balanced or not
CleanFragments ==
  {"", "[[", "]]", "a", "x|y", "<", ">", "<b>", "<!--", "-->", " ", "\n", "{{t|u}}"}

CleanTextCalls ==
  {[fn |-> "cleanText", text |-> a \o "[[" \o b \o "]]" \o c, pass |-> 1] :
     a \in CleanFragments, b \in CleanFragments, c \in CleanFragments}

\* a wiki link inside a sentence: [[Target]] or [[Target|Display]], the
\* display text plain or with a template call, and a template call next to it
LinkDisplays == {"", "the towers", "{{Icon|x}} Towers", "Towers {{Icon}}"}

linkCall(before, target, display, after) ==
  [fn |-> "cleanText", pass |-> 1, kind |-> "link",
   text |-> before \o "[[" \o target \o (IF display = "" THEN "" ELSE "|" \o display)
            \o "]]" \o after,
   display |-> display,
   expected |-> before \o (IF display = "" THEN target ELSE display) \o after]

LinkCalls ==
  {linkCall(before, "Moonrise Towers", display, after) :
     before \in {"", "Sold at ", "{{CharLink|Wyll}} at "},
     display \in LinkDisplays,
     after \in {"", " by {{CharLink|Araj}}"}}

\* the lines an item page is made of, each with what it signals:
\* an opening template (item: its name starts with an item-type prefix)
TemplateLines ==
  {<<"", FALSE>>, <<"{{Infobox}}", FALSE>>, <<"{{Quest weapon}}", FALSE>>}
  \cup
  {<<"{{" \o spaces(pad) \o n, TRUE>> : pad \in 0..MaxPad, n \in {"WeaponPage}}", "ring"}}

\* a category declaration (item: it names an item-like category)
CategoryLines ==
  {<<"", FALSE>>, <<"[[Category:Quests]]", FALSE>>, <<"[[Category:Magic Items]]", FALSE>>,
   <<"[[Category:Weapons]]", TRUE>>, <<"[[category: accessories]]", TRUE>>}

\* an identifier field (field: a uuid= or uid= field)
IdLines ==
  {<<"", FALSE>>, <<"uuid=x", FALSE>>, <<"|guid=x", FALSE>>}
  \cup
  {<<"|" \o spaces(pad) \o n, TRUE>> : pad \in 0..MaxPad, n \in {"uuid=x", "UID = y"}}

\* another field (item: one of rarity, damage, enchantment, type, category)
OtherLines ==
  {<<"", FALSE>>, <<"|weight=1", FALSE>>, <<"rarity=Rare", FALSE>>,
   <<"|rarity=Rare", TRUE>>, <<"| damage = 1d6", TRUE>>, <<"|enchantment=+1", TRUE>>,
   <<"|Type = Ring", TRUE>>, <<"|category=x", TRUE>>}

IsCollectibleCalls ==
  {[fn |-> "isCollectibleItem",
    markup |-> t[1] \o "\n" \o i[1] \o "\n" \o o[1] \o "\n" \o c[1],
    template |-> t[2], category |-> c[2], id |-> i[2], other |-> o[2], blank |-> FALSE] :
     t \in TemplateLines, c \in CategoryLines, i \in IdLines, o \in OtherLines}
  \cup
  {[fn |-> "isCollectibleItem", markup |-> w,
    template |-> FALSE, category |-> FALSE, id |-> FALSE, other |-> FALSE, blank |-> TRUE] :
     w \in {"", " ", "\n", " \n\t "}}

\* the largest index of the window 2..MaxPresent in which every set of
\* present numbered location fields is tried
MaxPresent == 7

\* sets of present indices that reach beyond the window; index 1 stands for
\* the base fields, which carry no number
FarPresentSets ==
  {{2, 9}, {2, 10}, {3, 6, 10}, {2, 5, 8, 11}, {16, 20}, {17, 20}, {2, 4, 8, 12}, {9},
   {1}, {1, 2, 5}, {1, 4}, {1, 6}}

WindowPresentSets == SUBSET (2..MaxPresent)

locationSuffix(n) == IF n = 1 THEN "" ELSE numStr(n)
placeValue(n) == "place" \o numStr(n) \o "."
spotValue(n) == "spot" \o numStr(n) \o "."

\* the field lines of one index: the detail field, or the name and the detail field
locationLines(fieldKind, pad, n) ==
  LET detailLine == "|" \o spaces(pad) \o "where to find" \o locationSuffix(n)
                    \o " = " \o spotValue(n)
      nameLine == "|" \o spaces(pad) \o "where to find location" \o locationSuffix(n)
                  \o " = " \o placeValue(n)
  IN IF fieldKind = "detail" THEN detailLine
     ELSE IF fieldKind = "name" THEN nameLine
     ELSE nameLine \o "\n" \o detailLine

\* the members of a set of numbers, ascending
RECURSIVE ascending(_)
ascending(S) == IF S = {} THEN <<>> ELSE <<Min(S)>> \o ascending(S \ {Min(S)})

locationMarkup(fieldKind, pad, present) ==
  "{{WeaponPage\n"
  \o join([k \in 1..Cardinality(present) |->
             locationLines(fieldKind, pad, ascending(present)[k])], "\n")
  \o "\n}}"

parseCall(content, title, kind, known, present, fieldKind) ==
  [fn |-> "parseItem", content |-> content, title |-> title, kind |-> kind,
   known |-> known, present |-> present, fieldKind |-> fieldKind]

\* a '|' directly before the field name, or one space after it
NumberedCalls ==
  {parseCall(locationMarkup("detail", pad, present), "Phalar Aluve", "numbered",
             present # {}, present, "detail") :
     present \in WindowPresentSets, pad \in 0..1}
  \cup
  {parseCall(locationMarkup(fieldKind, pad, present), "Phalar Aluve", "numbered",
             TRUE, present, fieldKind) :
     present \in FarPresentSets, fieldKind \in {"detail", "both"}, pad \in 0..1}

\* markup with the generic location field before the where-to-find fields of
\* the indices present, all within the first indices the scan looks at
GenericLocation == "Lower City"

FallbackCalls ==
  {parseCall("{{WeaponPage\n| location = " \o GenericLocation \o "\n"
               \o join([k \in 1..Cardinality(present) |->
                          locationLines(fieldKind, 1, ascending(present)[k])], "\n")
               \o "\n}}",
             "Phalar Aluve", "fallback", TRUE, present, fieldKind) :
     present \in {{}, {1}, {2}, {1, 3}, {4}}, fieldKind \in {"detail", "name", "both"}}

\* markup without any field the parser knows: empty, malformed, unbalanced
UnknownMarkups ==
  {"", " ", "{{", "}}", "{{WeaponPage", "{{WeaponPage}}", "|", "| rarity", "|=", "|}}",
   "rarity = Rare", "{{Infobox|weight=1}}", "[[a|b", "<!-- |x", "|raritys = x",
   "| where to find", "|locations = x", "|item location = x", "{{{{|}}", "|rarity =",
   "|rarity =\n|uid = x", "where to find = Underdark", "| description }} = x"}

UnknownCalls ==
  {parseCall(m, t, "unknown", FALSE, {}, "") :
     m \in UnknownMarkups, t \in {"Phalar Aluve", ""}}

\* markup with the fields rarity, uuid and description
FieldMarkups ==
  {"|" \o spaces(pad) \o "rarity = Rare\n|" \o spaces(pad) \o "uuid = abc-1\n|"
     \o spaces(pad) \o "description = " \o d \o tail :
     pad \in 0..MaxPad,
     d \in {"A fine blade.", "Crafted by {{CharLink|Wyll}}.", "A <b>fine</b> blade. <!-- wip -->"},
     tail \in {"", "\n}}", "\n| weight = 1"}}
  \cup {"{{WeaponPage|rarity=Rare}}", "|uuid= abc-1 }}\n", "| Rarity = Very Rare <!-- x -->\n"}

FieldCalls == {parseCall(m, "Phalar Aluve", "fields", TRUE, {}, "") : m \in FieldMarkups}

\* markup whose field values are empty, a comment or markup only, or on
\* the next line
EmptyValueMarkups ==
  {"{{WeaponPage\n| rarity = <!-- unknown -->\n| uuid = abc-1\n}}",
   "{{WeaponPage\n| uuid = <!-- none --> <!-- yet -->\n}}",
   "{{WeaponPage\n| description = <br>\n}}",
   "{{WeaponPage\n| description = <!-- wip --><i></i>\n}}",
   "{{WeaponPage\n| rarity =\n| uuid =\n| description =\n| where to find =\n}}",
   "{{WeaponPage\n| rarity =\nVery Rare\n}}",
   "{{WeaponPage\n| where to find = <!-- todo -->\n}}",
   "{{WeaponPage\n| where to find = [[File:Map.png]]\n}}",
   "{{WeaponPage\n| location = <!-- todo -->\n}}",
   "{{WeaponPage\n| location = [[File:Map.png]]\n}}",
   "{{WeaponPage\n| where to find location = <br>\n| where to find = <br>\n}}"}

EmptyValueCalls ==
  {parseCall(m, "Phalar Aluve", "empty", TRUE, {}, "") : m \in EmptyValueMarkups}

ParseItemCalls ==
  NumberedCalls \cup UnknownCalls \cup FieldCalls \cup FallbackCalls \cup EmptyValueCalls

\* how many saves and loads one browser session makes
MaxStorageOps == 3

\* the builds the application saves: one build with 1, 20, 30 or 31 items
SavedBuilds == {buildList(rev, n) : rev \in {1, 2}, n \in {1, 20, 30, 31}}

emptyStore == [k \in StorageKeys |-> <<>>]

\* the browser before the first save: nothing stored, or the items of the
\* version without builds, in the cookie or in localStorage
InitialStorages ==
  {[cookie |-> emptyStore, local |-> emptyStore, localAvailable |-> a] : a \in BOOLEAN}
  \cup
  {[cookie |-> emptyStore,
    local |-> [emptyStore EXCEPT ![STORAGE_KEY] = <<JSONstringify(itemList(1, 3))>>],
    localAvailable |-> TRUE],
   [cookie |-> [emptyStore EXCEPT
                  ![STORAGE_KEY] = <<encodeURIComponent(JSONstringify(itemList(1, 3)))>>],
    local |-> emptyStore, localAvailable |-> TRUE]}

\* no browser storage is involved in the other calls
idleStorage == [cookie |-> emptyStore, local |-> emptyStore, localAvailable |-> TRUE]

StorageFns == {"storage", "saveBuilds", "loadBuilds"}

\* The wiki the entry points are checked against.
noHtml == [blank |-> TRUE, spans |-> <<>>]
document(spans) == [blank |-> FALSE, spans |-> spans]
span(id, inHeading, siblings) == [id |-> id, inHeading |-> inHeading, siblings |-> siblings]
paragraphs(texts) == [k \in 1..Len(texts) |-> element("P", texts[k])]

wikiPage(pageid, title, content, html) ==
  [pageid |-> pageid, title |-> title, content |-> content,
   hasRevision |-> TRUE, isString |-> TRUE, html |-> html]

\* Phalar Aluve: the markup names the Underdark, the rendered section Moonrise
\* Towers, and the section after it the Lower City.
\* Shortsword: the rendered section is too short to be used.
\* Amulet: the span the first anchors select is not in a heading; of the
\* sections that are, the first is too short and the second is used.
\* Quests is no item; the Ring has a namespace word inside its title.
\* Moon Lantern: the markup names a known location, the rendered section none.
WikiPages ==
  <<wikiPage(1, "Phalar Aluve",
             "{{WeaponPage\n| rarity = Rare\n| where to find = Underdark\n}}",
             document(<<span("Where_to_find", TRUE,
                             paragraphs(<<"[edit]", " Sold  by the vendor\nat Moonrise Towers. ">>)
                             \o <<element("H2", "Notes"),
                                  element("P", "Once sold in the Lower City.")>>)>>)),
    wikiPage(2, "Shortsword",
             "{{WeaponPage\n| rarity = Common\n| location = Lower City\n}}",
             document(<<span("Location", TRUE, paragraphs(<<"Unknown">>))>>)),
    wikiPage(3, "Amulet",
             "{{AmuletPage\n| where to find = Sold by a trader\n}}",
             document(<<span("where_to_find", FALSE,
                             paragraphs(<<"Found in the Lower City sewers">>)),
                        span("Location", TRUE,
                             paragraphs(<<" ", "See map">>)
                             \o <<element("H3", "Locations"),
                                  element("P", "Found in the Underdark [Edit]")>>),
                        span("Locations", TRUE,
                             paragraphs(<<"Found in the Underdark [Edit]", "[EDIT]">>))>>)),
    wikiPage(4, "Quests", "A list of quests.", noHtml),
    wikiPage(5, "Ring of Small Talk: Charisma",
             "{{RingPage\n| rarity = Rare\n}}",
             document(<<span("Notes", TRUE, paragraphs(<<"A ring for those who chat a lot.">>))>>)),
    wikiPage(6, "Moon Lantern",
             "{{ItemPage\n| where to find = Moonrise Towers\n}}",
             document(<<span("Where_to_Find", TRUE,
                             paragraphs(<<"Carried by a wandering drider.">>))>>))>>

\* The documents extractSection is checked on: one span with an id, in a
\* heading or not, after a span of another section, and the siblings that
\* follow its heading.
SectionIds == {"Where_to_find", "where-to-find", "where to find", "WHERE_TO_FIND", "Location"}

SiblingLists ==
  {<<>>,
   paragraphs(<<" ">>),
   paragraphs(<<"[edit]">>),
   paragraphs(<<"[edit]\n", "\n">>),
   <<element("P", "Found in the Underdark."), element("H3", "Notes"),
     element("P", "Sold elsewhere.")>>,
   <<element("H2", "Trivia"), element("P", "Never dropped.")>>,
   <<element("P", "[Edit]"), element("UL", "In a chest"), element("P", "near [edit] the gate"),
     element("H2", "Trivia"), element("P", "Never dropped.")>>,
   <<element("HR", ""), element("DIV", " Behind\nthe  waterfall "), element("P", " [EDIT] "),
     element("HEADER", "at night"), element("H6", "Gallery")>>}

SectionCalls ==
  {[fn |-> "extractSection", anchorId |-> "Where to find",
    html |-> document(<<span("Notes", TRUE, paragraphs(<<"Seen in the Lower City.">>)),
                        span(id, inHeading, siblings)>>),
    matches |-> id \in {"Where_to_find", "where-to-find", "where to find"},
    inHeading |-> inHeading, siblings |-> siblings] :
   id \in SectionIds, inHeading \in BOOLEAN, siblings \in SiblingLists}
  \cup
  {[fn |-> "extractSection", anchorId |-> "Where to find", html |-> noHtml,
    matches |-> FALSE, inHeading |-> FALSE, siblings |-> <<>>]}

\* a page whose revision content is not a string
brokenPage ==
  [pageid |-> 7, title |-> "Broken", content |-> "", hasRevision |-> TRUE,
   isString |-> FALSE, html |-> noHtml]

\* a page the wiki does not have: it comes back without revisions
missingPage(title) ==
  [pageid |-> 0, title |-> title, content |-> "", hasRevision |-> FALSE,
   isString |-> TRUE, html |-> noHtml]

\* the pages of a content response for these titles, by page id
pagesFor(titles) ==
  SelectSeq(WikiPages, LAMBDA page : \E k \in 1..Len(titles) : titles[k] = page.title)

ManyArrows == [k \in 1..15 |-> "Arrow " \o numStr(k)]

SearchResultLists ==
  {<<"Shortsword", "Phalar Aluve", "Amulet">>,
   <<"Category:Weapons", "Shortsword", "Quests", "Moon Lantern">>,
   <<"Ring of Small Talk: Charisma", "Amulet", "template:Infobox">>,
   <<"File:Sword.png", "Special:Search">>,
   ManyArrows \o <<"Amulet">>,
   <<>>}

SearchQueries == {"shortsword", "Amulet", "  "}
ItemNames == {"Phalar Aluve", "phalar aluve", "Amulet", "Quests", "Moon Lantern", "Broken"}

\* what a fetch can come to: it rejects, answers with a non-OK status,
\* answers with a body that is no JSON, or with the JSON null
FetchFailures == {"rejects", "notOk", "badJson", "nullData"}
\* the search also answers without a query member, or with a result that has no title
SearchOutcomes == FetchFailures \cup {"noQuery", "untitled", "ok"}
ContentOutcomes == FetchFailures \cup {"noQuery", "ok"}
\* the parse also answers without a text of the expected shape
ParseOutcomes == FetchFailures \cup {"noText", "ok"}

\* the pages a content response may hold for a name: none, any one page of
\* the wiki, the page without a revision, or the page with a broken revision
LookupResponses(name) ==
  {<<>>, <<missingPage(name)>>, <<brokenPage>>} \cup {<<WikiPages[i]>> : i \in DOMAIN WikiPages}

idleFrame == [results |-> <<>>, titles |-> <<>>, pages |-> <<>>, slots |-> <<>>, error |-> <<>>]

searchCall(query) == [fn |-> "searchItems", query |-> query]
SearchItemsCalls == {searchCall(q) : q \in SearchQueries}
GetItemByNameCalls == {[fn |-> "getItemByName", name |-> n] : n \in ItemNames}

(***************************************************************************)
(* The application (App.tsx).  Of a build the model keeps its id, its name *)
(* and its items; of an item its id, its location, its act and whether it  *)
(* is collected.  The variables builds and activeBuildId are the state of  *)
(* the component, historyRef and hasProcessedActs its refs, submitting the *)
(* submissions of the add-item form that wait for the wiki, each with the  *)
(* builds and the active build of the render it started in, and saved the  *)
(* builds last handed to saveBuilds.  The variable session counts what the *)
(* user did, and trace remembers the most recent change and the keys       *)
(* pressed since: the builds shown before and after the change, the        *)
(* history state the change was recorded on, how many states the           *)
(* recording discarded, and the active build before the last key.          *)
(***************************************************************************)
listItem(id, location, act) == [id |-> id, location |-> location, act |-> act, collected |-> FALSE]
build(id, name, items) == [id |-> id, name |-> name, items |-> items]

\* App.tsx line 91: the number of states the history keeps
HistoryLimit == 50

\* how many changes a short session makes, how many changes a long session
\* makes beyond the history limit, and how many undo and redo keys restore
\* a state
MaxChanges == 2
MaxOverflow == 2
MaxKeys == 2

\* crypto.randomUUID(), generateId(): the n-th identifier of the browser
uuid(n) == "id" \o numStr(n)

\* What loadBuilds returns (storage.ts 85-146): the default build, empty or
\* with the items of the version without builds, which carry no act, or
\* the builds the application saved, which are never an empty list (App.tsx
\* 77-81 saves a list only when it has a build).
LoadableBuilds ==
  {<<build(uuid(1), "My First Run", <<>>)>>,
   <<build(uuid(1), "My First Run",
           <<listItem(uuid(2), "Moonrise Towers", <<>>),
             [listItem(uuid(3), "Location not found", <<>>) EXCEPT !.collected = TRUE]>>)>>,
   <<build(uuid(1), "My First Run", <<listItem(uuid(2), "Underdark", <<1>>)>>),
     build(uuid(3), "Run 2", <<listItem(uuid(4), "Sold by a trader", <<>>)>>)>>}

\* how many items the builds hold; with the builds themselves, these are
\* the identifiers the browser has handed out before the session
RECURSIVE itemCount(_)
itemCount(bs) == IF bs = <<>> THEN 0 ELSE Len(Head(bs).items) + itemCount(Tail(bs))

\* the builds a long session starts from
LongSessionBuilds == <<build(uuid(1), "My First Run", <<listItem(uuid(2), "Underdark", <<1>>)>>)>>

\* the item data the add-item form hands to onAdd: an item of the wiki with
\* its location and act (AddItemForm.tsx 121-128, 209-228), or the name
\* alone when the wiki has no such item (AddItemForm.tsx 202-205)
SelectedItems == {[location |-> "Lower City", act |-> <<3>>]}
SubmittedItems == {[location |-> "Location not found", act |-> <<>>]}

NewNames == {"Honour run"}

\* builds.find(b => b.id === id)
hasBuild(bs, id) == \E b \in 1..Len(bs) : bs[b].id = id

buildIds(bs) == {bs[b].id : b \in 1..Len(bs)}

\* App.tsx 83-84: the items of the active build, none without one
activeItems(bs, activeId) ==
  LET at == {b \in 1..Len(bs) : bs[b].id = activeId}
  IN IF at = {} THEN <<>> ELSE bs[Min(at)].items

\* App.tsx 36-38, 54
needsAct(it) == it.location # "" /\ it.location # "Location not found" /\ it.act = <<>>

\* App.tsx 35-39
itemsNeedingAct(bs) ==
  \E b \in 1..Len(bs) : \E i \in 1..Len(bs[b].items) : needsAct(bs[b].items[i])

\* App.tsx 52-66
processedItem(it) ==
  IF needsAct(it) THEN [it EXCEPT !.act = determineActFromLocation(it.location)] ELSE it

processedItems(items) == [i \in 1..Len(items) |-> processedItem(items[i])]

\* App.tsx 48-71
processedBuilds(bs) == [b \in 1..Len(bs) |-> [bs[b] EXCEPT !.items = processedItems(@)]]

\* A faulty variant of saveToHistory that never drops the oldest state: C28
\* tells it from the code.
saveToHistoryUnbounded(ref, newBuilds) ==
  [history |-> Append(SubSeq(ref.history, 1, ref.index + 1), newBuilds),
   index |-> ref.index + 1]

\* App.tsx 87-97; index is the JavaScript index, so history[index + 1] here
saveToHistory(ref, newBuilds) ==
  LET newHistory == Append(SubSeq(ref.history, 1, ref.index + 1), newBuilds)
      kept == IF Len(newHistory) > HistoryLimit THEN Tail(newHistory) ELSE newHistory
  IN [history |-> kept, index |-> Len(kept) - 1]

\* App.tsx 108-113 and 125-130: the active build after a restore, for the
\* activeBuildId the handler sees and the one the component has
activeAfterRestore(restored, seen, current) ==
  IF restored # <<>> /\ ~hasBuild(restored, seen) THEN restored[1].id ELSE current

\* App.tsx 11-12 and 134-150: the keydown listener is installed once, by an
\* effect without dependencies, so the handleUndo and handleRedo it calls
\* are those of the first render, where activeBuildId is ''
FirstRenderActiveBuildId == ""

\* builds.map(build => build.id === activeBuildId ? {...build, items} : build)
withItems(bs, activeId, changed(_)) ==
  [b \in 1..Len(bs) |-> IF bs[b].id = activeId THEN [bs[b] EXCEPT !.items = changed(@)]
                                               ELSE bs[b]]

\* App.tsx 155-165
addItem(bs, activeId, newItem) ==
  withItems(bs, activeId, LAMBDA items : Append(items, newItem))

\* App.tsx 171-180
toggleItem(bs, activeId, id) ==
  withItems(bs, activeId, LAMBDA items :
    [i \in 1..Len(items) |-> IF items[i].id = id
                             THEN [items[i] EXCEPT !.collected = ~@] ELSE items[i]])

\* App.tsx 186-190
removeItem(bs, activeId, id) ==
  withItems(bs, activeId, LAMBDA items : SelectSeq(items, LAMBDA it : it.id # id))

\* App.tsx 196-205
markActComplete(bs, activeId, act) ==
  withItems(bs, activeId, LAMBDA items :
    [i \in 1..Len(items) |-> IF items[i].act = act
                             THEN [items[i] EXCEPT !.collected = TRUE] ELSE items[i]])

\* App.tsx 215-221
addBuild(bs, id) == Append(bs, build(id, "Run " \o numStr(Len(bs) + 1), <<>>))

\* App.tsx 228-230
renameBuild(bs, buildId, newName) ==
  [b \in 1..Len(bs) |-> IF bs[b].id = buildId THEN [bs[b] EXCEPT !.name = newName] ELSE bs[b]]

\* App.tsx 238
deleteBuild(bs, buildId) == SelectSeq(bs, LAMBDA b : b.id # buildId)

noTrace ==
  [before |-> <<>>, after |-> <<>>, base |-> <<>>, discarded |-> 0,
   since |-> <<"load">>, key |-> "", activeBefore |-> ""]

\* App.tsx 11-16: the component before its effects have run
constructed ==
  /\ builds = <<>>
  /\ activeBuildId = ""
  /\ historyRef = [history |-> <<>>, index |-> -1]
  /\ hasProcessedActs = FALSE
  /\ submitting = <<>>
  /\ saved = <<>>
  /\ session = [changes |-> 0, keys |-> 0, ids |-> 0]
  /\ trace = noTrace

(***************************************************************************)
(* The add-item form (AddItemForm.tsx, the component with the search).     *)
(* The variables searchQuery, searchResults, selectedItem, isSearching,    *)
(* showDropdown, manualMode and highlightedIndex are the state of the      *)
(* component; of a wiki item the model keeps the name.  searchTimeoutRef   *)
(* is the pending timer of the debounce, with the query its callback       *)
(* closes over; requests holds the queries of the searchItems calls in     *)
(* flight and lookups the number of getItemByName calls in flight.  The    *)
(* variable typed counts the changes of the query text, and applied        *)
(* remembers the last response applied: its query and results, and the    *)
(* query, the selected item, the manual mode, the results and the dropdown *)
(* it arrived at.  onAdd is the handleAddItem of the application (AddItem  *)
(* and SubmitSettles).                                                     *)
(***************************************************************************)
\* how many times the query text is changed
MaxTyped == 3

\* the texts typed and what searchItems answers for them
TypedQueries == {"", "am", "sh", "zz"}

searchAnswer(query) ==
  IF query = "am" THEN <<"Amulet">>
  ELSE IF query = "sh" THEN <<"Shield", "Shortsword">>
  ELSE <<>>

\* bg3WikiApi.ts 962-965: a search that fails resolves to no items
SearchAnswers(query) == {searchAnswer(query), <<>>}

\* AddItemForm.tsx 60-67
formConstructed ==
  /\ searchQuery = ""
  /\ searchResults = <<>>
  /\ selectedItem = <<>>
  /\ isSearching = FALSE
  /\ showDropdown = FALSE
  /\ manualMode = FALSE
  /\ highlightedIndex = -1
  /\ searchTimeoutRef = <<>>
  /\ requests = {}
  /\ lookups = 0
  /\ typed = 0
  /\ applied = <<>>

(***************************************************************************)
(* The effects and handlers of the application.                            *)
(***************************************************************************)
AppInit ==
  /\ call \in {[fn |-> "App", session |-> s] : s \in {"short", "long"}}
  /\ pc = "mount"
  /\ ret = <<>>
  /\ storage = idleStorage
  /\ frame = idleFrame
  /\ constructed
  /\ formConstructed

\* App.tsx 77-81: the save effect, for the builds of the next render
Saved(newBuilds) == saved' = IF newBuilds # <<>> THEN newBuilds ELSE saved

\* App.tsx 18-26: the load effect
Load ==
  /\ pc = "mount"
  /\ \E loadedBuilds \in IF call.session = "long" THEN {LongSessionBuilds} ELSE LoadableBuilds :
       /\ builds' = loadedBuilds
       /\ historyRef' = [history |-> <<loadedBuilds>>, index |-> 0]
       /\ activeBuildId' = IF loadedBuilds # <<>> /\ activeBuildId = ""
                           THEN loadedBuilds[1].id ELSE activeBuildId
       /\ Saved(loadedBuilds)
  /\ session' = [session EXCEPT !.ids = Len(builds') + itemCount(builds')]
  /\ pc' = "loaded"
  /\ UNCHANGED <<hasProcessedActs, submitting, trace, serviceVars, formVars>>

\* App.tsx 30-75: the effect that fills in the acts, which runs when the
\* builds are loaded and finishes before the user can do anything, as
\* determineActFromLocation awaits nothing
RetroactiveActs ==
  /\ pc = "loaded"
  /\ IF builds = <<>> \/ hasProcessedActs
     THEN UNCHANGED <<builds, hasProcessedActs, saved>>
     ELSE /\ hasProcessedActs' = TRUE
          /\ builds' = IF itemsNeedingAct(builds) THEN processedBuilds(builds) ELSE builds
          /\ Saved(builds')
  /\ pc' = "running"
  /\ UNCHANGED <<activeBuildId, historyRef, submitting, session, trace, serviceVars, formVars>>

\* how many changes the session may still make
mayChange ==
  /\ pc = "running"
  /\ session.changes < (IF call.session = "long" THEN HistoryLimit + MaxOverflow ELSE MaxChanges)

short == mayChange /\ call.session = "short"

\* saveToHistory(newBuilds); setBuilds(newBuilds), with the save effect
Record(newBuilds, newIds) ==
  /\ historyRef' = saveToHistory(historyRef, newBuilds)
  /\ builds' = newBuilds
  /\ Saved(newBuilds)
  /\ session' = [session EXCEPT !.changes = @ + 1, !.ids = @ + newIds]
  /\ trace' = [trace EXCEPT !.before = builds, !.after = newBuilds,
                            !.base = historyRef.history[historyRef.index + 1],
                            !.discarded = Len(historyRef.history) - (historyRef.index + 1),
                            !.since = <<>>, !.key = ""]

\* App.tsx 152-168, from a form that has the item at hand (AddItemForm.tsx
\* 120-134 and 208-238)
AddItem ==
  /\ short
  /\ hasBuild(builds, activeBuildId)
  /\ \E itemData \in SelectedItems :
       Record(addItem(builds, activeBuildId,
                      listItem(uuid(session.ids + 1), itemData.location, itemData.act)), 1)
  /\ UNCHANGED <<activeBuildId, hasProcessedActs, submitting, pc, serviceVars, formVars>>

\* AddItemForm.tsx 196-219: a name is submitted and getItemByName is awaited
Submit ==
  /\ short
  /\ submitting = <<>>
  /\ submitting' = <<[builds |-> builds, activeBuildId |-> activeBuildId]>>
  /\ UNCHANGED <<builds, activeBuildId, historyRef, hasProcessedActs, saved, session, trace,
                 pc, serviceVars, formVars>>

\* AddItemForm.tsx 219-238 and App.tsx 152-168: getItemByName settles and
\* onAdd runs, which is the handleAddItem of the render the submission
\* started in, with the builds and the active build of that render
SubmitSettles ==
  /\ short
  /\ submitting # <<>>
  /\ submitting' = <<>>
  /\ IF hasBuild(submitting[1].builds, submitting[1].activeBuildId)
     THEN \E itemData \in SubmittedItems :
            Record(addItem(submitting[1].builds, submitting[1].activeBuildId,
                           listItem(uuid(session.ids + 1), itemData.location, itemData.act)), 1)
     ELSE UNCHANGED <<builds, historyRef, saved, session, trace>>
  /\ UNCHANGED <<activeBuildId, hasProcessedActs, pc, serviceVars, formVars>>

\* App.tsx 170-183
ToggleItem ==
  /\ mayChange
  /\ \E i \in 1..Len(activeItems(builds, activeBuildId)) :
       Record(toggleItem(builds, activeBuildId, activeItems(builds, activeBuildId)[i].id), 0)
  /\ UNCHANGED <<activeBuildId, hasProcessedActs, submitting, pc, serviceVars, formVars>>

\* App.tsx 185-193
RemoveItem ==
  /\ short
  /\ \E i \in 1..Len(activeItems(builds, activeBuildId)) :
       Record(removeItem(builds, activeBuildId, activeItems(builds, activeBuildId)[i].id), 0)
  /\ UNCHANGED <<activeBuildId, hasProcessedActs, submitting, pc, serviceVars, formVars>>

\* App.tsx 195-208, for the act of one of the items shown
MarkActComplete ==
  /\ short
  /\ \E i \in 1..Len(activeItems(builds, activeBuildId)) :
       Record(markActComplete(builds, activeBuildId, activeItems(builds, activeBuildId)[i].act), 0)
  /\ UNCHANGED <<activeBuildId, hasProcessedActs, submitting, pc, serviceVars, formVars>>

\* App.tsx 210-212, for one of the tabs
SelectBuild ==
  /\ pc = "running"
  /\ call.session = "short"
  /\ \E buildId \in buildIds(builds) :
       /\ buildId # activeBuildId
       /\ activeBuildId' = buildId
  /\ trace' = [trace EXCEPT !.key = ""]
  /\ UNCHANGED <<builds, historyRef, hasProcessedActs, submitting, saved, session, pc, serviceVars, formVars>>

\* App.tsx 214-225
AddBuild ==
  /\ short
  /\ Record(addBuild(builds, uuid(session.ids + 1)), 1)
  /\ activeBuildId' = uuid(session.ids + 1)
  /\ UNCHANGED <<hasProcessedActs, submitting, pc, serviceVars, formVars>>

\* App.tsx 227-233
RenameBuild ==
  /\ short
  /\ \E buildId \in buildIds(builds), newName \in NewNames :
       Record(renameBuild(builds, buildId, newName), 0)
  /\ UNCHANGED <<activeBuildId, hasProcessedActs, submitting, pc, serviceVars, formVars>>

\* App.tsx 242-245: the active build after a build is deleted
activeAfterDelete(newBuilds, buildId, activeId) ==
  IF buildId = activeId /\ newBuilds # <<>> THEN newBuilds[1].id ELSE activeId

\* App.tsx 235-246
DeleteBuild ==
  /\ short
  /\ Len(builds) > 1
  /\ \E buildId \in buildIds(builds) :
       /\ Record(deleteBuild(builds, buildId), 0)
       /\ activeBuildId' = activeAfterDelete(deleteBuild(builds, buildId), buildId, activeBuildId)
  /\ UNCHANGED <<hasProcessedActs, submitting, pc, serviceVars, formVars>>

\* setBuilds(history[newIndex]) and what follows it in handleUndo and handleRedo
Restore(newIndex, key) ==
  /\ builds' = historyRef.history[newIndex + 1]
  /\ historyRef' = [historyRef EXCEPT !.index = newIndex]
  /\ activeBuildId' = activeAfterRestore(historyRef.history[newIndex + 1],
                                         FirstRenderActiveBuildId, activeBuildId)
  /\ Saved(historyRef.history[newIndex + 1])
  /\ session' = [session EXCEPT !.keys = @ + 1]
  /\ trace' = [trace EXCEPT !.since = Append(@, key), !.key = key,
                            !.activeBefore = activeBuildId]

mayPress == pc = "running" /\ session.keys < MaxKeys

\* App.tsx 99-114 and 136-141: Ctrl+Z or Cmd+Z
KeyUndo ==
  /\ mayPress
  /\ IF historyRef.index > 0
     THEN Restore(historyRef.index - 1, "undo")
     ELSE UNCHANGED <<builds, activeBuildId, historyRef, saved, session, trace>>
  /\ UNCHANGED <<hasProcessedActs, submitting, pc, serviceVars, formVars>>

\* App.tsx 116-131 and 142-146: Ctrl+Y, Ctrl+Shift+Z or Cmd+Shift+Z
KeyRedo ==
  /\ mayPress
  /\ IF historyRef.index < Len(historyRef.history) - 1
     THEN Restore(historyRef.index + 1, "redo")
     ELSE UNCHANGED <<builds, activeBuildId, historyRef, saved, session, trace>>
  /\ UNCHANGED <<hasProcessedActs, submitting, pc, serviceVars, formVars>>

AppNext ==
  \/ Load
  \/ RetroactiveActs
  \/ AddItem
  \/ Submit
  \/ SubmitSettles
  \/ ToggleItem
  \/ RemoveItem
  \/ MarkActComplete
  \/ SelectBuild
  \/ AddBuild
  \/ RenameBuild
  \/ DeleteBuild
  \/ KeyUndo
  \/ KeyRedo

AppSpec == AppInit /\ [][AppNext]_vars

(***************************************************************************)
(* The handlers and effects of the add-item form.                          *)
(***************************************************************************)
FormInit ==
  /\ call = [fn |-> "AddItemForm"]
  /\ pc = "form"
  /\ ret = <<>>
  /\ storage = idleStorage
  /\ frame = idleFrame
  /\ constructed
  /\ formConstructed

\* AddItemForm.tsx 77
searchSkipped(query, selected, manual) == trim(query) = "" \/ selected # <<>> \/ manual

\* The render that follows a handler which set the query, the selected
\* item, the manual mode, the results and the highlight, with the debounce
\* effect of lines 72-98: it runs when one of its dependencies changed,
\* clears the pending timer and either empties the results or starts a new
\* timer for the query.
Render(query, selected, manual, results, highlighted) ==
  /\ searchQuery' = query
  /\ selectedItem' = selected
  /\ manualMode' = manual
  /\ IF <<query, selected, manual>> = <<searchQuery, selectedItem, manualMode>>
     THEN /\ searchResults' = results
          /\ highlightedIndex' = highlighted
          /\ UNCHANGED <<isSearching, searchTimeoutRef>>
     ELSE IF searchSkipped(query, selected, manual)
     THEN /\ searchResults' = <<>>
          /\ isSearching' = FALSE
          /\ highlightedIndex' = -1
          /\ searchTimeoutRef' = <<>>
     ELSE /\ searchResults' = results
          /\ isSearching' = TRUE
          /\ highlightedIndex' = highlighted
          /\ searchTimeoutRef' = <<query>>

\* AddItemForm.tsx 137-146: the text of the input changes
SearchChange ==
  /\ typed < MaxTyped
  /\ typed' = typed + 1
  /\ \E value \in TypedQueries \ {searchQuery} :
       Render(value, <<>>, FALSE, searchResults, -1)
  /\ UNCHANGED <<showDropdown, requests, lookups, applied, pc, serviceVars, appVars>>

\* AddItemForm.tsx 85-86: 300 ms have passed and the callback of the timer
\* calls searchItems with the query it closes over
TimerFires ==
  /\ searchTimeoutRef # <<>>
  /\ requests' = requests \cup {searchTimeoutRef[1]}
  /\ searchTimeoutRef' = <<>>
  /\ UNCHANGED <<searchQuery, searchResults, selectedItem, isSearching, showDropdown, manualMode,
                 highlightedIndex, lookups, typed, applied, pc, serviceVars, appVars>>

\* AddItemForm.tsx 86-90: a searchItems call settles, in any order
SearchSettles ==
  /\ \E query \in requests : \E results \in SearchAnswers(query) :
       /\ requests' = requests \ {query}
       /\ searchResults' = results
       /\ showDropdown' = (results # <<>>)
       /\ applied' = <<[query |-> query, current |-> searchQuery, selected |-> selectedItem # <<>>,
                        manual |-> manualMode, shown |-> searchResults, open |-> showDropdown,
                        results |-> results]>>
  /\ isSearching' = FALSE
  /\ highlightedIndex' = -1
  /\ UNCHANGED <<searchQuery, selectedItem, manualMode, searchTimeoutRef, lookups, typed,
                 pc, serviceVars, appVars>>

\* AddItemForm.tsx 263: the dropdown with the results is on the page
dropdownShown == showDropdown /\ searchResults # <<>> /\ ~manualMode

\* AddItemForm.tsx 112-117, from a click on a result (line 280)
SelectItem ==
  /\ dropdownShown
  /\ \E i \in 1..Len(searchResults) :
       Render(searchResults[i], <<searchResults[i]>>, FALSE, searchResults, -1)
  /\ showDropdown' = FALSE
  /\ UNCHANGED <<requests, lookups, typed, applied, pc, serviceVars, appVars>>

\* the item Enter takes, AddItemForm.tsx 175-180
enteredItem == IF highlightedIndex >= 0 /\ highlightedIndex < Len(searchResults)
               THEN searchResults[highlightedIndex + 1] ELSE searchResults[1]

\* AddItemForm.tsx 148-188; Enter selects with autoAdd (112-134), which
\* hands the item to onAdd and resets the form
KeyDown ==
  /\ showDropdown
  /\ searchResults # <<>>
  /\ \E key \in {"ArrowDown", "ArrowUp", "Enter", "Escape"} :
       IF key = "ArrowDown"
       THEN /\ highlightedIndex' = IF highlightedIndex < Len(searchResults) - 1
                                   THEN highlightedIndex + 1 ELSE 0
            /\ UNCHANGED <<searchQuery, searchResults, selectedItem, isSearching, showDropdown,
                           manualMode, searchTimeoutRef>>
       ELSE IF key = "ArrowUp"
       THEN /\ highlightedIndex' = IF highlightedIndex > 0
                                   THEN highlightedIndex - 1 ELSE Len(searchResults) - 1
            /\ UNCHANGED <<searchQuery, searchResults, selectedItem, isSearching, showDropdown,
                           manualMode, searchTimeoutRef>>
       ELSE IF key = "Enter"
       THEN /\ Render("", <<>>, FALSE, <<>>, -1)
            /\ showDropdown' = FALSE
       ELSE /\ showDropdown' = FALSE
            /\ highlightedIndex' = -1
            /\ UNCHANGED <<searchQuery, searchResults, selectedItem, isSearching, manualMode,
                           searchTimeoutRef>>
  /\ UNCHANGED <<requests, lookups, typed, applied, pc, serviceVars, appVars>>

\* AddItemForm.tsx 190-194, from the button in the dropdown (line 270)
ManualEntry ==
  /\ dropdownShown
  /\ Render(searchQuery, selectedItem, TRUE, <<>>, highlightedIndex)
  /\ showDropdown' = FALSE
  /\ UNCHANGED <<requests, lookups, typed, applied, pc, serviceVars, appVars>>

\* AddItemForm.tsx 253-255: the input gets the focus
Focus ==
  /\ searchResults # <<>>
  /\ showDropdown' = TRUE
  /\ UNCHANGED <<searchQuery, searchResults, selectedItem, isSearching, manualMode,
                 highlightedIndex, searchTimeoutRef, requests, lookups, typed, applied,
                 pc, serviceVars, appVars>>

\* AddItemForm.tsx 101-110: a click outside the dropdown
ClickOutside ==
  /\ showDropdown
  /\ showDropdown' = FALSE
  /\ UNCHANGED <<searchQuery, searchResults, selectedItem, isSearching, manualMode,
                 highlightedIndex, searchTimeoutRef, requests, lookups, typed, applied,
                 pc, serviceVars, appVars>>

\* AddItemForm.tsx 196-239: the form is submitted; with a selected item or
\* in manual mode the item is handed to onAdd at once and the form is
\* reset, else getItemByName is awaited first
SubmitForm ==
  /\ trim(searchQuery) # ""
  /\ IF selectedItem # <<>> \/ manualMode
     THEN /\ Render("", <<>>, FALSE, <<>>, highlightedIndex)
          /\ UNCHANGED lookups
     ELSE /\ lookups = 0
          /\ lookups' = 1
          /\ UNCHANGED <<searchQuery, searchResults, selectedItem, isSearching, manualMode,
                         highlightedIndex, searchTimeoutRef>>
  /\ UNCHANGED <<showDropdown, requests, typed, applied, pc, serviceVars, appVars>>

\* AddItemForm.tsx 219-238: getItemByName settles, the item is handed to
\* onAdd and the form is reset
LookupSettles ==
  /\ lookups > 0
  /\ lookups' = lookups - 1
  /\ Render("", <<>>, FALSE, <<>>, highlightedIndex)
  /\ UNCHANGED <<showDropdown, requests, typed, applied, pc, serviceVars, appVars>>

FormNext ==
  \/ SearchChange
  \/ TimerFires
  \/ SearchSettles
  \/ SelectItem
  \/ KeyDown
  \/ ManualEntry
  \/ Focus
  \/ ClickOutside
  \/ SubmitForm
  \/ LookupSettles

FormSpec == FormInit /\ [][FormNext]_vars

(***************************************************************************)
(* The state machine: a call is chosen, then the function it names runs.   *)
(***************************************************************************)
Init ==
  /\ pc = "ready"
  /\ ret = <<>>
  /\ frame = idleFrame
  /\ \/ /\ \/ call \in ExtractFieldCalls
           \/ call \in ExtractWithVariationsCalls
           \/ call \in ClassifyActCalls
           \/ call \in CleanTextCalls
           \/ call \in LinkCalls
           \/ call \in IsCollectibleCalls
           \/ call \in ParseItemCalls
           \/ call \in SectionCalls
           \/ call \in SearchItemsCalls
           \/ call \in GetItemByNameCalls
        /\ storage = idleStorage
     \/ /\ call = [fn |-> "storage", ops |-> 0, saved |-> <<>>]
        /\ storage \in InitialStorages
  /\ constructed
  /\ formConstructed

ExtractField ==
  /\ pc = "ready"
  /\ call.fn = "extractField"
  /\ ret' = extractFieldValue(call.content, call.fieldName)
  /\ pc' = "done"
  /\ UNCHANGED <<call, storage, frame>>
  /\ UNCHANGED <<appVars, formVars>>

ExtractWithVariations ==
  /\ pc = "ready"
  /\ call.fn = "extractWithVariations"
  /\ ret' = extractWithVariations(call.content, call.fieldName)
  /\ pc' = "done"
  /\ UNCHANGED <<call, storage, frame>>
  /\ UNCHANGED <<appVars, formVars>>

ClassifyAct ==
  /\ pc = "ready"
  /\ call.fn = "classifyAct"
  /\ ret' = determineActFromLocation(call.text)
  /\ pc' = "done"
  /\ UNCHANGED <<call, storage, frame>>
  /\ UNCHANGED <<appVars, formVars>>

CleanText ==
  /\ pc = "ready"
  /\ call.fn = "cleanText"
  /\ ret' = cleanWikiText(call.text)
  /\ pc' = "done"
  /\ UNCHANGED <<call, storage, frame>>
  /\ UNCHANGED <<appVars, formVars>>

\* the caller cleans the text it got back once more
CleanTextAgain ==
  /\ pc = "done"
  /\ call.fn = "cleanText"
  /\ call.pass = 1
  /\ call' = [fn |-> "cleanText", text |-> ret, pass |-> 2]
  /\ pc' = "ready"
  /\ UNCHANGED <<ret, storage, frame>>
  /\ UNCHANGED <<appVars, formVars>>

IsCollectibleItem ==
  /\ pc = "ready"
  /\ call.fn = "isCollectibleItem"
  /\ ret' = isEquippableItem(call.markup)
  /\ pc' = "done"
  /\ UNCHANGED <<call, storage, frame>>
  /\ UNCHANGED <<appVars, formVars>>

ParseItem ==
  /\ pc = "ready"
  /\ call.fn = "parseItem"
  /\ ret' = parseWikiContent(call.content, call.title)
  /\ pc' = "done"
  /\ UNCHANGED <<call, storage, frame>>
  /\ UNCHANGED <<appVars, formVars>>

\* lines 130-197
ExtractSection ==
  /\ pc = "ready"
  /\ call.fn = "extractSection"
  /\ ret' = extractSectionFromHTML(call.html, call.anchorId)
  /\ pc' = "done"
  /\ UNCHANGED <<call, storage, frame>>
  /\ UNCHANGED <<appVars, formVars>>

\* the application saves its builds (App.tsx 77-81: only a non-empty list)
SaveBuilds ==
  /\ call.fn \in StorageFns
  /\ call.ops < MaxStorageOps
  /\ \E value \in SavedBuilds :
       /\ storage' \in saveBuilds(storage, value)
       /\ call' = [fn |-> "saveBuilds", ops |-> call.ops + 1, saved |-> <<value>>]
  /\ ret' = <<>>
  /\ pc' = "done"
  /\ UNCHANGED frame
  /\ UNCHANGED <<appVars, formVars>>

\* the application starts and loads its builds (App.tsx 18-26)
LoadBuilds ==
  /\ call.fn \in StorageFns
  /\ call.ops < MaxStorageOps
  /\ \E loaded \in loadBuilds(storage) :
       /\ ret' = loaded.value
       /\ storage' = loaded.storage
  /\ call' = [fn |-> "loadBuilds", ops |-> call.ops + 1, saved |-> call.saved]
  /\ pc' = "done"
  /\ UNCHANGED frame
  /\ UNCHANGED <<appVars, formVars>>

(***************************************************************************)
(* searchItems and getItemByName as processes: each await of a fetch is a  *)
(* step, whose outcome the wiki chooses.  The variable frame holds the     *)
(* locals of the running function: the search results, the titles kept,    *)
(* the pages of the content response, for each page the slot of its        *)
(* callback in Promise.all, and the error the catch block caught.          *)
(***************************************************************************)
pendingSlot == [settled |-> FALSE, outcome |-> "", item |-> <<>>]
settledSlot(outcome, item) == [settled |-> TRUE, outcome |-> outcome, item |-> item]

\* A faulty variant of pageItem that takes the rendered page for fetched
\* whatever became of the fetch: C12 tells it from the code.
pageItemIgnoringFailure(page, outcome) ==
  renderedItem(contentOf(page), page.title, page.html)

\* lines 879-948: what the callback of a page returns, by the outcome of its parse fetch
pageItem(page, outcome) ==
  IF outcome \in {"ok", "noText"}
  THEN renderedItem(contentOf(page), page.title, IF outcome = "ok" THEN page.html ELSE noHtml)
  ELSE fallbackItem(contentOf(page), page.title)

\* lines 1000-1044: what getItemByName returns for a page, by the outcome of its parse fetch
namedItem(page, outcome) ==
  withActOfLocation(withRenderedLocation(parseWikiContent(contentOf(page), page.title),
                                         IF outcome = "ok" THEN page.html ELSE noHtml))

\* the items of the wiki's pages, computed once
pageItems == [i \in DOMAIN WikiPages |-> [o \in ParseOutcomes |-> pageItem(WikiPages[i], o)]]
namedItems == [i \in DOMAIN WikiPages |-> [o \in ParseOutcomes |-> namedItem(WikiPages[i], o)]]
equippable == [i \in DOMAIN WikiPages |-> isEquippableItem(contentOf(WikiPages[i]))]

\* lines 804-806 and the search fetch
SearchItems ==
  /\ pc = "ready"
  /\ call.fn = "searchItems"
  /\ IF trim(call.query) = ""
     THEN ret' = resolved(<<>>) /\ pc' = "done"
     ELSE ret' = ret /\ pc' = "search"
  /\ UNCHANGED <<call, storage, frame>>
  /\ UNCHANGED <<appVars, formVars>>

\* lines 813-849: the search fetch settles
SearchResponse ==
  /\ pc = "search"
  /\ \E outcome \in SearchOutcomes, results \in SearchResultLists :
       IF outcome \in FetchFailures \cup {"untitled"}
       THEN /\ ret' = searchItemsCatch(outcome)
            /\ pc' = "done"
            /\ frame' = [frame EXCEPT !.error = <<outcome>>]
       ELSE LET search == IF outcome = "noQuery" THEN <<>> ELSE results
                titles == itemTitles(search)
            IN /\ frame' = [frame EXCEPT !.results = search, !.titles = titles]
               /\ IF titles = <<>>
                  THEN ret' = resolved(<<>>) /\ pc' = "done"
                  ELSE ret' = ret /\ pc' = "content"
  /\ UNCHANGED <<call, storage>>
  /\ UNCHANGED <<appVars, formVars>>

\* lines 854-878: the content fetch settles and the callback of each page
\* runs up to its own fetch; a page that is no item is null at once, and a
\* content that is no string makes its callback, and so Promise.all, reject
ContentResponse ==
  /\ pc = "content"
  /\ \E outcome \in ContentOutcomes, broken \in BOOLEAN :
       IF outcome \in FetchFailures
       THEN /\ ret' = searchItemsCatch(outcome)
            /\ pc' = "done"
            /\ frame' = [frame EXCEPT !.error = <<outcome>>]
       ELSE LET pages == IF outcome = "noQuery" THEN <<>>
                         ELSE pagesFor(frame.titles) \o (IF broken THEN <<brokenPage>> ELSE <<>>)
                slots == [k \in 1..Len(pages) |->
                            IF equippable[pages[k].pageid] THEN pendingSlot
                            ELSE settledSlot("noItem", <<>>)]
            IN IF \E k \in 1..Len(pages) : ~pages[k].isString
               THEN /\ ret' = searchItemsCatch("TypeError")
                    /\ pc' = "done"
                    /\ frame' = [frame EXCEPT !.pages = pages, !.error = <<"TypeError">>]
               ELSE /\ frame' = [frame EXCEPT !.pages = pages, !.slots = slots]
                    /\ ret' = ret
                    /\ pc' = "pages"
  /\ UNCHANGED <<call, storage>>
  /\ UNCHANGED <<appVars, formVars>>

\* lines 880-948: the parse fetch of one page settles, in any order
ParseResponse ==
  /\ pc = "pages"
  /\ \E k \in 1..Len(frame.slots), outcome \in ParseOutcomes :
       /\ ~frame.slots[k].settled
       /\ frame' = [frame EXCEPT
                      !.slots[k] = settledSlot(outcome, <<pageItems[frame.pages[k].pageid][outcome]>>)]
  /\ UNCHANGED <<call, pc, ret, storage>>
  /\ UNCHANGED <<appVars, formVars>>

\* lines 951-961: Promise.all resolves; the valid items are sorted and returned
SearchItemsReturn ==
  /\ pc = "pages"
  /\ \A k \in 1..Len(frame.slots) : frame.slots[k].settled
  /\ ret' = resolved(sortItems(validItems([k \in 1..Len(frame.slots) |-> frame.slots[k].item]),
                               call.query))
  /\ pc' = "done"
  /\ UNCHANGED <<call, storage, frame>>
  /\ UNCHANGED <<appVars, formVars>>

\* lines 971-977: the content fetch
GetItemByName ==
  /\ pc = "ready"
  /\ call.fn = "getItemByName"
  /\ pc' = "lookup"
  /\ UNCHANGED <<call, ret, storage, frame>>
  /\ UNCHANGED <<appVars, formVars>>

\* lines 977-1000: the content fetch settles
LookupResponse ==
  /\ pc = "lookup"
  /\ \E outcome \in ContentOutcomes, pages \in LookupResponses(call.name) :
       IF outcome \in FetchFailures
       THEN /\ ret' = getItemByNameCatch(outcome)
            /\ pc' = "done"
            /\ frame' = [frame EXCEPT !.error = <<outcome>>]
       ELSE LET found == SelectSeq(IF outcome = "noQuery" THEN <<>> ELSE pages,
                                   LAMBDA p : toLowerCase(p.title) = toLowerCase(call.name))
            IN IF found = <<>> \/ ~found[1].hasRevision
               THEN ret' = resolved(<<>>) /\ pc' = "done" /\ frame' = frame
               ELSE IF ~found[1].isString
               THEN /\ ret' = getItemByNameCatch("TypeError")
                    /\ pc' = "done"
                    /\ frame' = [frame EXCEPT !.pages = <<found[1]>>, !.error = <<"TypeError">>]
               ELSE IF ~equippable[found[1].pageid]
               THEN ret' = resolved(<<>>) /\ pc' = "done" /\ frame' = frame
               ELSE /\ frame' = [frame EXCEPT !.pages = <<found[1]>>, !.slots = <<pendingSlot>>]
                    /\ ret' = ret
                    /\ pc' = "render"
  /\ UNCHANGED <<call, storage>>
  /\ UNCHANGED <<appVars, formVars>>

\* lines 1004-1044: the parse fetch settles and the item is returned
RenderResponse ==
  /\ pc = "render"
  /\ \E outcome \in ParseOutcomes :
       frame' = [frame EXCEPT
                   !.slots[1] = settledSlot(outcome, <<namedItems[frame.pages[1].pageid][outcome]>>)]
  /\ ret' = resolved(frame'.slots[1].item)
  /\ pc' = "done"
  /\ UNCHANGED <<call, storage>>
  /\ UNCHANGED <<appVars, formVars>>

Next ==
  \/ ExtractField
  \/ ExtractWithVariations
  \/ ClassifyAct
  \/ CleanText
  \/ CleanTextAgain
  \/ IsCollectibleItem
  \/ ParseItem
  \/ ExtractSection
  \/ SaveBuilds
  \/ LoadBuilds
  \/ SearchItems
  \/ SearchResponse
  \/ ContentResponse
  \/ ParseResponse
  \/ SearchItemsReturn
  \/ GetItemByName
  \/ LookupResponse
  \/ RenderResponse

Spec == Init /\ [][Next]_vars

returned(fn) == pc = "done" /\ call.fn = fn

(***************************************************************************)
(* Field Extractor properties.                                             *)
(***************************************************************************)

\* C1: on a template body of the two sibling fields rarity and uuid, one per
\* line, extractField returns for each field exactly its own value
\* ("Common", "abc"): the value stops at the '|' of the following field.
C1_ValueEndsAtNextField ==
  (returned("extractField") /\ call.kind = "siblings") => ret = <<call.value>>

\* C2: a description holding the nested call {{CharLink|Wyll}} and followed
\* by a rarity field is returned whole and alone: not cut inside the nested
\* call, not extended into the rarity field.
C2_NestedTemplateValue ==
  (returned("extractField") /\ call.kind = "nested" /\ call.asked = 1)
    => ret = <<"Crafted by {{CharLink|Wyll}}.">>

\* C3: with a "where to find location<N>" and a "where to find<N>" field both
\* present, in either order, each name extracts its own field's value, which
\* does not contain the other field's value.
C3_LongAndShortFieldsApart ==
  ((returned("extractField") \/ returned("extractWithVariations")) /\ call.kind = "where")
    => (ret = <<call.value>> /\ ~includes(ret[1], call.other))

\* C21: in the value scan every '{{' of the value opens a nested call,
\* whatever stands before it, and its '}}' closes it: a description that
\* holds a nested call is returned whole, up to the '}}' that closes the
\* template.
C21_NestedCallNeverEndsValue ==
  (returned("extractField") /\ call.kind = "brace") => ret = <<call.value>>

(***************************************************************************)
(* Act Classifier properties.                                              *)
(***************************************************************************)

\* C4: a text with both "cloister" and "somber" and no act marker is Act 3.
C4_CloisterAndSomberIsAct3 ==
  (returned("classifyAct") /\ call.kind = "cloisterSomber") => ret = <<3>>

containsKnownLocation(text) ==
  \E i \in KnownLocations :
    \/ includes(toLowerCase(text), lowerKnown[i])
    \/ includes(toLowerCase(text), knownWithoutThe[i])

containsKeyword(text) ==
  \E i \in 1..Len(locationKeywords) : includes(toLowerCase(text), locationKeywords[i][1])

\* the text has no marker, no canonical location name and no keyword
nothingNamed(text) ==
  /\ generalMatch(text) = 0
  /\ ~containsKnownLocation(text)
  /\ ~containsKeyword(text)

\* an extracted name that is part of a canonical name (or the reverse), also
\* with a leading "the " dropped from both, or that names an inherited member
resemblesKnownLocation(name) ==
  \/ name \in ObjectPrototypeKeys
  \/ \E i \in KnownLocations :
       LET n == trim(toLowerCase(name))
       IN \/ includes(lowerKnown[i], n)
          \/ includes(n, lowerKnown[i])
          \/ includes(knownWithoutThe[i], withoutThe(n))
          \/ includes(withoutThe(n), knownWithoutThe[i])

noNameResembles(text) ==
  \A n \in 1..Len(extractLocationNames(trim(text))) :
    ~resemblesKnownLocation(extractLocationNames(trim(text))[n])

C6_KnownLocationLookup ==
  (returned("classifyAct") /\ call.kind \in {"name", "nameDetail"}) => ret = <<call.act>>

C6_Witness ==
  /\ returned("classifyAct")
  /\ call.text = "Baldur's Gate - Lower City"
  /\ ret = <<3>>

\* C7: a canonical location name inside one of the phrases "Found in the L",
\* "Found in L", "L area", "L area, near the ..." is classified to L's act.
C7_LocationInsidePhrase ==
  (returned("classifyAct") /\ call.kind = "phrase") => ret = <<call.act>>

\* C8: a text with exactly one parenthetical act marker is classified to
\* the marker's act, whatever location it names besides.
C8_ExplicitMarkerWins ==
  (returned("classifyAct") /\ call.kind = "marker") => ret = <<call.act>>

C8_Witness ==
  /\ returned("classifyAct")
  /\ call.text = "Campsite (Act Two)"
  /\ ret = <<2>>

(***************************************************************************)
(* Text Normalizer and Item Classifier properties.                         *)
(***************************************************************************)

\* C9: cleaning a cleaned text changes nothing.
C9_CleanTextIdempotent ==
  (returned("cleanText") /\ call.pass = 2) => ret = call.text

\* C22: cleanText puts the display text of [[Target|Display]] and the
\* target of [[Target]] in the place of the link and keeps every template
\* call of its input as it stands, also one inside the display text.
C22_LinksResolvedTemplatesKept ==
  (returned("cleanText") /\ call.pass = 1 /\ "kind" \in DOMAIN call)
    => ret = call.expected

\* C10: blank markup is no item; other markup is an item exactly when it has
\* an item template, an item category, or an id field (uuid/uid) together
\* with one of the fields rarity, damage, enchantment, type, category.
C10_CollectibleExactlyWhenSignalled ==
  returned("isCollectibleItem")
    => ret = (~call.blank /\ (call.template \/ call.category \/ (call.id /\ call.other)))

\* the id field alone does not make an item
C10_Witness ==
  /\ returned("isCollectibleItem")
  /\ call.id /\ ~call.other /\ ~call.template /\ ~call.category
  /\ ret = FALSE

(***************************************************************************)
(* Content Parser properties.                                              *)
(***************************************************************************)

\* the number of consecutive missing indices right before index n, from 2 on
gapBefore(present, n) ==
  LET before == {m \in present : m >= 2 /\ m < n}
  IN IF before = {} THEN n - 2 ELSE n - 1 - Max(before)

numbered(present) == {n \in present : n >= 2}

\* the location text has a part that is the rendering of the fields of index n
captured(item, fieldKind, n) ==
  /\ item.where_to_find # <<>>
  /\ LET text == item.where_to_find[1]
         first == IF fieldKind = "detail" THEN spotValue(n) ELSE placeValue(n)
     IN /\ startsWith(text, first) \/ includes(text, " | " \o first)
        /\ fieldKind = "both" => includes(text, " - " \o spotValue(n))

\* C11: when no run of missing indices before a present numbered location
\* field is longer than 2, every present numbered field is captured in the
\* location text.
C11_GapsUpToTwoTolerated ==
  (returned("parseItem") /\ call.kind = "numbered"
     /\ \A n \in numbered(call.present) : gapBefore(call.present, n) <= 2)
    => \A n \in numbered(call.present) : captured(ret, call.fieldKind, n)

C11_Witness ==
  /\ returned("parseItem")
  /\ call.kind = "numbered"
  /\ call.present = {2, 5}
  /\ ret.where_to_find = <<"spot2. | spot5.">>

\* C15: the record parseItem returns is named after the title; for markup
\* without any known field it is exactly { name: title }.
C15_NameIsTitle ==
  returned("parseItem")
    => /\ ret.name = call.title
       /\ ~call.known =>
            ret = [name |-> call.title, rarity |-> <<>>, uuid |-> <<>>,
                   description |-> <<>>, where_to_find |-> <<>>, act |-> <<>>]

C15_Witness ==
  /\ returned("parseItem")
  /\ call.content = "{{Infobox|weight=1}}"
  /\ ret = [name |-> "Phalar Aluve", rarity |-> <<>>, uuid |-> <<>>,
            description |-> <<>>, where_to_find |-> <<>>, act |-> <<>>]

\* the name and the detail the Field Extractor and the Text Normalizer give
\* for index n, 1 standing for the base fields
entryOf(content, n) == cleanedEntry(locationFields(content, locationSuffix(n)))

\* "name - detail", or whichever of the two there is
rendering(entry) ==
  IF entry.name # <<>> /\ entry.detail # <<>> THEN entry.name[1] \o " - " \o entry.detail[1]
  ELSE IF entry.name # <<>> THEN entry.name[1]
  ELSE entry.detail[1]

\* the renderings of the entries of the indices K, ascending, joined with " | "
assembled(content, K) ==
  join([k \in 1..Cardinality(K) |-> rendering(entryOf(content, ascending(K)[k]))], " | ")

C19_StopsAfterThreeMisses ==
  (returned("parseItem") /\ call.kind = "numbered")
    => \A n \in numbered(call.present) :
         gapBefore(call.present, n) >= 3 => ~captured(ret, call.fieldKind, n)

\* cleanText(extractField(markup, field)) with any trailing '}}' removed
withoutTrailingBraces(s) ==
  LET keep == {i \in 1..Len(s) : charAt(s, i) # "}"}
      last == IF keep = {} THEN 0 ELSE Max(keep)
  IN IF Len(s) - last >= 2 THEN SubSeq(s, 1, last) ELSE s

viaFieldExtractor(content, fieldName) ==
  LET v == extractFieldValue(content, fieldName)
  IN IF v = <<>> THEN <<>> ELSE <<trim(withoutTrailingBraces(cleanWikiText(v[1])))>>

\* C20: rarity, uuid and description of the record are what the Field
\* Extractor and the Text Normalizer make of the markup.
C20_FieldsViaFieldExtractor ==
  (returned("parseItem") /\ call.kind = "fields")
    => /\ ret.rarity = viaFieldExtractor(call.content, "rarity")
       /\ ret.uuid = viaFieldExtractor(call.content, "uuid")
       /\ ret.description = viaFieldExtractor(call.content, "description")

\* C25: every optional field of a parsed record is absent or a non-empty
\* string: rarity, uuid, description and where_to_find are never the empty
\* string, whatever the value of the field in the markup.
C25_OptionalFieldsNeverEmpty ==
  returned("parseItem")
    => /\ ret.rarity # <<"">>
       /\ ret.uuid # <<"">>
       /\ ret.description # <<"">>
       /\ ret.where_to_find # <<"">>

(***************************************************************************)
(* Rendered section properties.                                            *)
(***************************************************************************)

\* the siblings of a call that come before the next heading element
beforeNextHeading(siblings) ==
  SelectSeq([k \in 1..Len(siblings) |->
               [text |-> siblings[k].textContent,
                inSection |-> \A j \in 1..k : siblings[j].tagName \notin
                                 {"H1", "H2", "H3", "H4", "H5", "H6"}]],
            LAMBDA sibling : sibling.inSection)

hasText(sibling) == trim(sibling.text) # ""
editOnly(sibling) == toLowerCase(trim(sibling.text)) = "[edit]"
readable(sibling) == hasText(sibling) /\ ~editOnly(sibling)

\* a text with its edit-link markers taken out and its whitespace collapsed
normalised(text) == trim(replaceSpaceRuns(removeEditLinks(text), " "))

textsOf(section) == [k \in 1..Len(section) |-> section[k].text]

sectionMatches(section, result) ==
  IF SelectSeq(section, hasText) = <<>> THEN result = <<>>
  ELSE IF SelectSeq(section, readable) = <<>> THEN result \in {<<>>, <<"">>}
  ELSE /\ result # <<>>
       /\ normalised(result[1]) = normalised(join(textsOf(SelectSeq(section, readable)), " "))

C18_LoadReturnsLastSave ==
  (returned("loadBuilds") /\ call.saved # <<>> /\ storage.localAvailable)
    => ret = call.saved[1]

\* the titles of the search results that begin with a namespace word
namespaceTitle(title) ==
  \E p \in 1..Len(excludedPatterns) : startsWith(toLowerCase(title), excludedPatterns[p])

otherTitle(title) == ~namespaceTitle(title)

\* C14: the search-result filter drops a result exactly when its title
\* starts, in any case, with one of the namespace words; a title that has
\* such a word further on is kept.  (Result lists within the title limit.)
C14_FilterByTitlePrefix ==
  (call.fn = "searchItems" /\ frame.results # <<>> /\ Len(frame.results) <= TitleLimit)
    => frame.titles = SelectSeq(frame.results, otherTitle)

\* the names of the items of a list
namesOf(items) == {items[k].name : k \in 1..Len(items)}

\* searchItems returned after Promise.all resolved
joined == returned("searchItems") /\ frame.slots # <<>>

failedSlots == {k \in 1..Len(frame.slots) : frame.slots[k].outcome \in FetchFailures}

actOf(location) ==
  IF truthy(location) THEN determineActFromLocation(location[1]) ELSE undefined

withActOf(item) == [item EXCEPT !.act = actOf(item.where_to_find)]

rawItems ==
  [i \in DOMAIN WikiPages |->
     withActOf(parseWikiContent(WikiPages[i].content, WikiPages[i].title))]

itemPages == {k \in 1..Len(frame.pages) : equippable[frame.pages[k].pageid]}

sectionOrRaw(section, raw) ==
  IF section # <<>> /\ Len(section[1]) > 10 THEN section ELSE raw

finalLocation ==
  [i \in DOMAIN WikiPages |-> [o \in ParseOutcomes |->
     sectionOrRaw(IF o = "ok" THEN extractWhereToFindFromHTML(WikiPages[i].html) ELSE <<>>,
                  rawItems[i].where_to_find)]]

finalAct ==
  [i \in DOMAIN WikiPages |-> [o \in ParseOutcomes |-> actOf(finalLocation[i][o])]]

consistentItem(item, page, outcome) ==
  /\ item.where_to_find = finalLocation[page.pageid][outcome]
  /\ item.act = finalAct[page.pageid][outcome]

\* C16: every item searchItems or getItemByName returns has as where_to_find
\* the rendered section when one longer than 10 characters was extracted and
\* the location of the raw markup otherwise, and as act the classification
\* of that final where_to_find, unset when the classification is undefined.
C16_ActOfFinalLocation ==
  /\ joined =>
       \A k \in itemPages :
         \E n \in 1..Len(ret.value) :
           /\ ret.value[n].name = frame.pages[k].title
           /\ consistentItem(ret.value[n], frame.pages[k], frame.slots[k].outcome)
  /\ (returned("getItemByName") /\ ret.value # <<>>) =>
       consistentItem(ret.value[1], frame.pages[1], frame.slots[1].outcome)

\* a search that returns Phalar Aluve with the rendered section, which names
\* act 2 where the markup names act 1, and Amulet with a rendered section
\* that names act 1 where the markup names no act
C16_Witness ==
  /\ joined
  /\ \E n \in 1..Len(ret.value) :
       /\ ret.value[n].name = "Phalar Aluve"
       /\ ret.value[n].where_to_find = <<"Sold by the vendor at Moonrise Towers.">>
       /\ ret.value[n].act = <<2>>
  /\ \E n \in 1..Len(ret.value) :
       /\ ret.value[n].name = "Amulet"
       /\ ret.value[n].act = <<1>>

\* C17: in the list searchItems returns, every item whose name is the query
\* in any case comes before every item whose name is not, and the items
\* whose name is not the query are in alphabetical order of their names.
C17_ExactFirstThenAlphabetical ==
  returned("searchItems") =>
    \A m \in 1..Len(ret.value) : \A n \in (m + 1)..Len(ret.value) :
      /\ isExact(ret.value[n], call.query) => isExact(ret.value[m], call.query)
      /\ (~isExact(ret.value[m], call.query) /\ ~isExact(ret.value[n], call.query))
           => localeCompare(ret.value[m].name, ret.value[n].name) <= 0

\* the search for "shortsword" returns Shortsword before Amulet and Phalar Aluve
C17_Witness ==
  /\ returned("searchItems")
  /\ call.query = "shortsword"
  /\ Len(ret.value) = 3
  /\ ret.value[1].name = "Shortsword"
  /\ ret.value[2].name = "Amulet"
  /\ ret.value[3].name = "Phalar Aluve"

(***************************************************************************)
(* Application properties, of AppSpec.                                     *)
(***************************************************************************)

\* C26: an undo that follows a change restores the builds that were shown
\* before that change, and the redo that follows it the builds shown after
\* it, also when the acts were filled in after the load.
C26_UndoRestoresDisplayed ==
  /\ trace.since = <<"undo">> => builds = trace.before
  /\ trace.since = <<"undo", "redo">> => builds = trace.after

\* C27: after an undo or a redo from the keyboard the active build is the
\* one that was active before, if the restored builds have it, and their
\* first build only if they do not.
C27_KeysKeepActiveBuild ==
  trace.key \in {"undo", "redo"}
    => activeBuildId = IF hasBuild(builds, trace.activeBefore) THEN trace.activeBefore
                       ELSE builds[1].id

\* C28: once loaded, the history holds 1 to 50 states and its index points
\* at one of them; a change is recorded right after the state the history
\* stood at, as the last state, so that the states undone before are gone.
C28_HistoryBounded ==
  pc # "mount"
    => /\ Len(historyRef.history) \in 1..HistoryLimit
       /\ historyRef.index \in 0..(Len(historyRef.history) - 1)
       /\ trace.since = <<>>
            => /\ historyRef.index = Len(historyRef.history) - 1
               /\ historyRef.history[historyRef.index + 1] = trace.after
               /\ historyRef.history[historyRef.index] = trace.base

C28_Witness ==
  /\ session.changes > HistoryLimit
  /\ Len(historyRef.history) = HistoryLimit
  /\ trace.since = <<>>
  /\ trace.discarded > 0

\* C29: once loaded, and after any operations, there is at least one build
\* and activeBuildId is the id of one of the builds.
C29_ActiveBuildExists ==
  pc # "mount" => (builds # <<>> /\ hasBuild(builds, activeBuildId))

(***************************************************************************)
(* Add-item form properties, of FormSpec.                                  *)
(***************************************************************************)

\* C30: a response of searchItems is applied to the results and the
\* dropdown only when its query is the current query text, no item is
\* selected and manual mode is off; a response for an earlier query never
\* replaces the results shown and never reopens the dropdown.
C30_OnlyLatestQueryApplied ==
  (/\ applied # <<>>
   /\ \/ applied[1].query # applied[1].current
      \/ applied[1].selected
      \/ applied[1].manual)
    => /\ applied[1].results = applied[1].shown
       /\ (applied[1].results # <<>>) = applied[1].open

====
